---------------------------- MODULE Spec2Model ----------------------------
(***************************************************************************)
(* London Breakout backtester: the signal generator (strategy.py), the     *)
(* risk manager (risk_management.py) and the bar-by-bar simulation loop    *)
(* with its statistics (backtest.py).                                      *)
(*                                                                         *)
(* Units.  A price is an integer number of pips (source price * 10000), so *)
(* the source's "(a - b) * 10000" is a plain difference; the code only     *)
(* subtracts and compares prices, so they are counted from a reference     *)
(* price (0 stands for, say, 1.1000 and -50 for 1.0950).  A lot size is an *)
(* integer number of hundredths of a lot (the source rounds sizes to two   *)
(* decimals).  Money is an integer number of cents:                        *)
(*    pnl_amount = pnl_pips * (10.0 * size_lots) dollars                   *)
(*               = pnl_pips * size * 10 cents,                             *)
(*    commission = COMMISSION_PER_LOT * size_lots dollars                  *)
(*               = COMMISSION_PER_LOT * size cents.                        *)
(* A timestamp is a number of minutes since midnight of day 0.  Python's   *)
(* None is the empty sequence <<>>, a value v that may be None is <<v>>.   *)
(* Floating-point rounding error is not modelled: arithmetic is exact.     *)
(***************************************************************************)
EXTENDS Integers, Sequences, FiniteSets, TLC

VARIABLES
    cfg,              \* the config module's values during the run
    bars,             \* df: the bar series, in index order
    pc,               \* where BacktestEngine.run (or the caller) stands
    current_equity,   \* RiskManager.current_equity (cents)
    positions,        \* every Position object created so far, by reference
    open_positions,   \* RiskManager.open_positions: references, in list order
    closed_trades,    \* RiskManager.closed_trades
    daily_pnl,        \* RiskManager.daily_pnl: date -> cents
    current_range,    \* LondonBreakoutStrategy.current_range
    last_signal_date, \* LondonBreakoutStrategy.last_signal_date
    equity_curve,     \* BacktestEngine.equity_curve
    dates,            \* BacktestEngine.dates
    results,          \* the dict built by _generate_results
    signal_log,       \* caller's record of generate_signal calls: <<now, result, scanned>>
    calls,            \* number of calls a direct caller has made
    optimizer         \* the StrategyOptimizer at work, None when there is none

vars == <<cfg, bars, pc, current_equity, positions, open_positions,
          closed_trades, daily_pnl, current_range, last_signal_date,
          equity_curve, dates, results, signal_log, calls, optimizer>>

-----------------------------------------------------------------------------
(* config.py *)

ASIAN_SESSION_START == 0
ASIAN_SESSION_END == 420
LONDON_OPEN == 480
LONDON_CLOSE == 960
TRADING_WINDOW_HOURS == 2
BREAKOUT_BUFFER_PIPS == 2
MIN_RANGE_PIPS == 15
MAX_RANGE_PIPS == 100
RISK_PER_TRADE_PERCENT == 1
RISK_REWARD_RATIO == 2
MAX_DAILY_LOSS_PERCENT == 3
MAX_OPEN_POSITIONS == 3
TREND_EMA_PERIOD == 200
COMMISSION_PER_LOT == 7
EXIT_BEFORE_CLOSE_MINUTES == 30
TRAILING_STOP_ACTIVATION_RR == 1
TRAILING_STOP_DISTANCE_PIPS == 10

\* MIN_RISK_REWARD = 1.5, as the fraction 3/2
MIN_RISK_REWARD_NUM == 3
MIN_RISK_REWARD_DEN == 2
\* MAX_POSITION_SIZE_LOTS = 1.0 lot, in hundredths of a lot
MAX_POSITION_SIZE_LOTS == 100
\* POSITION_SIZE_PER_100 = 0.01 lots, in hundredths of a lot
POSITION_SIZE_PER_100 == 1

DefaultConfig ==
    [ASIAN_SESSION_START |-> ASIAN_SESSION_START,
     ASIAN_SESSION_END |-> ASIAN_SESSION_END,
     LONDON_OPEN |-> LONDON_OPEN,
     LONDON_CLOSE |-> LONDON_CLOSE,
     TRADING_WINDOW_HOURS |-> TRADING_WINDOW_HOURS,
     BREAKOUT_BUFFER_PIPS |-> BREAKOUT_BUFFER_PIPS,
     MIN_RANGE_PIPS |-> MIN_RANGE_PIPS,
     MAX_RANGE_PIPS |-> MAX_RANGE_PIPS,
     RISK_PER_TRADE_PERCENT |-> RISK_PER_TRADE_PERCENT,
     POSITION_SIZE_PER_100 |-> POSITION_SIZE_PER_100,
     RISK_REWARD_RATIO |-> RISK_REWARD_RATIO,
     MAX_DAILY_LOSS_PERCENT |-> MAX_DAILY_LOSS_PERCENT,
     MAX_OPEN_POSITIONS |-> MAX_OPEN_POSITIONS,
     MAX_POSITION_SIZE_LOTS |-> MAX_POSITION_SIZE_LOTS,
     USE_TREND_FILTER |-> TRUE,
     TREND_EMA_PERIOD |-> TREND_EMA_PERIOD,
     TRADE_WITH_TREND_ONLY |-> TRUE,
     COMMISSION_PER_LOT |-> COMMISSION_PER_LOT,
     USE_TIME_EXIT |-> TRUE,
     EXIT_BEFORE_CLOSE_MINUTES |-> EXIT_BEFORE_CLOSE_MINUTES,
     USE_TRAILING_STOP |-> TRUE,
     TRAILING_STOP_ACTIVATION_RR |-> TRAILING_STOP_ACTIVATION_RR,
     TRAILING_STOP_DISTANCE_PIPS |-> TRAILING_STOP_DISTANCE_PIPS]

-----------------------------------------------------------------------------
(* datetime and arithmetic helpers *)

MinutesPerDay == 1440

\* datetime.date() and datetime.time()
DateOf(t) == t \div MinutesPerDay
TimeOf(t) == t % MinutesPerDay

Abs(x) == IF x < 0 THEN -x ELSE x

None == <<>>
Some(v) == <<v>>
IsNone(o) == o = <<>>
Get(o) == o[1]

\* the sign of the fraction n/d (d /= 0)
FracSign(n, d) ==
    IF n = 0 THEN 0
    ELSE IF (n > 0) = (d > 0) THEN 1 ELSE -1

\* n1/d1 < n2/d2 with d1, d2 > 0
FracLess(n1, d1, n2, d2) == n1 * d2 < n2 * d1

\* Python's round() to an integer of the fraction n/d (d > 0): to the
\* nearest, a tie to the even neighbour
RoundHalfEven(n, d) ==
    LET q == n \div d
        r == n - q * d
    IN  IF 2 * r < d THEN q
        ELSE IF 2 * r > d THEN q + 1
        ELSE IF q % 2 = 0 THEN q ELSE q + 1

RECURSIVE SumSeq(_)
SumSeq(s) == IF s = <<>> THEN 0 ELSE Head(s) + SumSeq(Tail(s))

Frac(n, d) == [num |-> n, den |-> d]
\* float('inf')
Inf == Frac(1, 0)
IsInf(f) == f.den = 0

\* {**f, **g}
Merge(f, g) ==
    [k \in DOMAIN f \cup DOMAIN g |-> IF k \in DOMAIN g THEN g[k] ELSE f[k]]

-----------------------------------------------------------------------------
(* risk_management.py: Position and Trade *)

\* Position.risk_pips
risk_pips(position) == Abs(position.entry_price - position.stop_loss)

\* Position.current_risk_amount (cents)
current_risk_amount(position) == risk_pips(position) * position.size_lots * 10

\* Position.calculate_pnl
calculate_pnl(position, current_price) ==
    IF position.side = "LONG"
    THEN current_price - position.entry_price
    ELSE position.entry_price - current_price

\* Trade.net_pnl
net_pnl(trade) == trade.pnl_amount - trade.commission

\* was_winner counting a break-even trade as a winner
was_winner_or_even(trade) == net_pnl(trade) >= 0

\* Trade.was_winner
was_winner(trade) == net_pnl(trade) > 0

not_winner(trade) == ~was_winner(trade)

RECURSIVE SumNetPnl(_)
\* sum(t.net_pnl for t in trades)
SumNetPnl(trades) ==
    IF trades = <<>> THEN 0 ELSE net_pnl(Head(trades)) + SumNetPnl(Tail(trades))

-----------------------------------------------------------------------------
(* risk_management.py: RiskManager.  The manager's fields are passed as a  *)
(* record rm so that one handler can call another.                         *)

NewRiskManager(initial_capital) ==
    [initial_capital |-> initial_capital,
     current_equity |-> initial_capital,
     positions |-> <<>>,
     open_positions |-> <<>>,
     closed_trades |-> <<>>,
     daily_pnl |-> <<>>]

total_pnl(rm) == SumNetPnl(rm.closed_trades)

RECURSIVE SumRisk(_, _)
SumRisk(heap, refs) ==
    IF refs = <<>> THEN 0
    ELSE current_risk_amount(heap[Head(refs)]) + SumRisk(heap, Tail(refs))

\* RiskManager.open_risk
open_risk(rm) == SumRisk(rm.positions, rm.open_positions)

\* RiskManager.win_rate, a percentage as a fraction
win_rate(rm) ==
    IF rm.closed_trades = <<>> THEN Frac(0, 1)
    ELSE Frac(Len(SelectSeq(rm.closed_trades, was_winner)) * 100,
              Len(rm.closed_trades))

\* profit_factor without the test of the gross profit: infinite whenever
\* nothing was lost
profit_factor_inf_without_loss(rm) ==
    LET gross_profit == SumNetPnl(SelectSeq(rm.closed_trades, was_winner))
        gross_loss == Abs(SumNetPnl(SelectSeq(rm.closed_trades, not_winner)))
    IN  IF gross_loss = 0 THEN Inf ELSE Frac(gross_profit, gross_loss)

\* RiskManager.profit_factor
profit_factor(rm) ==
    LET gross_profit == SumNetPnl(SelectSeq(rm.closed_trades, was_winner))
        gross_loss == Abs(SumNetPnl(SelectSeq(rm.closed_trades, not_winner)))
    IN  IF gross_loss = 0
        THEN (IF gross_profit > 0 THEN Inf ELSE Frac(0, 1))
        ELSE Frac(gross_profit, gross_loss)

\* calculate_position_size without the clamp to MAX_POSITION_SIZE_LOTS
calculate_position_size_no_max(rm, entry_price, stop_loss, risk_percent) ==
    LET rp == Abs(entry_price - stop_loss)
        n1 == rm.current_equity * risk_percent
        n4 == rm.current_equity * cfg.POSITION_SIZE_PER_100
        useSimple == ~FracLess(n1, rp, n4, 10)
    IN  IF rp = 0 THEN 0
        ELSE IF useSimple THEN RoundHalfEven(n4, 10 * 1000)
        ELSE RoundHalfEven(n1, rp * 1000)

\* RiskManager.calculate_position_size, in hundredths of a lot.  With the
\* equity in cents: risk_amount = equity * risk_percent / 100, position_size
\* = risk_amount / (risk_pips * 10) lots, MAX_POSITION_SIZE_LOTS and
\* simple_size = equity / 100 * POSITION_SIZE_PER_100 lots are here the
\* fractions n1/rp, n2/1 and n4/10 of 1/100000 of a lot (a common
\* factor 1000 is taken out of the three, so the products stay small).
calculate_position_size(rm, entry_price, stop_loss, risk_percent) ==
    LET rp == Abs(entry_price - stop_loss)
        n1 == rm.current_equity * risk_percent
        n2 == cfg.MAX_POSITION_SIZE_LOTS * 1000
        useMax == ~FracLess(n1, rp, n2, 1)
        n3 == IF useMax THEN n2 ELSE n1
        d3 == IF useMax THEN 1 ELSE rp
        n4 == rm.current_equity * cfg.POSITION_SIZE_PER_100
        useSimple == ~FracLess(n3, d3, n4, 10)
    IN  IF rp = 0 THEN 0
        ELSE IF useSimple THEN RoundHalfEven(n4, 10 * 1000)
        ELSE RoundHalfEven(n3, d3 * 1000)

\* can_open_position without the daily loss check
can_open_position_no_daily_limit(rm, risk_amount, current_date) ==
    IF Len(rm.open_positions) >= cfg.MAX_OPEN_POSITIONS
    THEN "Maximum open positions reached"
    ELSE IF (open_risk(rm) + risk_amount) * 100
               > rm.current_equity * cfg.RISK_PER_TRADE_PERCENT * cfg.MAX_OPEN_POSITIONS
    THEN "Total risk exposure too high"
    ELSE "OK"

\* can_open_position refusing a total risk equal to the allowed maximum
can_open_position_inclusive(rm, risk_amount, current_date) ==
    IF Len(rm.open_positions) >= cfg.MAX_OPEN_POSITIONS
    THEN "Maximum open positions reached"
    ELSE IF current_date \in DOMAIN rm.daily_pnl /\ rm.current_equity = 0
    THEN "ZeroDivisionError"
    ELSE IF /\ current_date \in DOMAIN rm.daily_pnl
            /\ IF rm.current_equity > 0
               THEN rm.daily_pnl[current_date] * 100
                        <= -cfg.MAX_DAILY_LOSS_PERCENT * rm.current_equity
               ELSE rm.daily_pnl[current_date] * 100
                        >= -cfg.MAX_DAILY_LOSS_PERCENT * rm.current_equity
    THEN "Daily loss limit reached"
    ELSE IF (open_risk(rm) + risk_amount) * 100
               >= rm.current_equity * cfg.RISK_PER_TRADE_PERCENT * cfg.MAX_OPEN_POSITIONS
    THEN "Total risk exposure too high"
    ELSE "OK"

\* can_open_position without the check of the number of open positions
can_open_position_uncounted(rm, risk_amount, current_date) ==
    IF current_date \in DOMAIN rm.daily_pnl /\ rm.current_equity = 0
    THEN "ZeroDivisionError"
    ELSE IF /\ current_date \in DOMAIN rm.daily_pnl
            /\ IF rm.current_equity > 0
               THEN rm.daily_pnl[current_date] * 100
                        <= -cfg.MAX_DAILY_LOSS_PERCENT * rm.current_equity
               ELSE rm.daily_pnl[current_date] * 100
                        >= -cfg.MAX_DAILY_LOSS_PERCENT * rm.current_equity
    THEN "Daily loss limit reached"
    ELSE IF (open_risk(rm) + risk_amount) * 100
               > rm.current_equity * cfg.RISK_PER_TRADE_PERCENT * cfg.MAX_OPEN_POSITIONS
    THEN "Total risk exposure too high"
    ELSE "OK"

\* RiskManager.can_open_position: the reason; "OK" when allowed, and
\* "ZeroDivisionError" when the daily-loss percentage divides by an equity of 0
can_open_position(rm, risk_amount, current_date) ==
    IF Len(rm.open_positions) >= cfg.MAX_OPEN_POSITIONS
    THEN "Maximum open positions reached"
    ELSE IF current_date \in DOMAIN rm.daily_pnl /\ rm.current_equity = 0
    THEN "ZeroDivisionError"
    ELSE IF /\ current_date \in DOMAIN rm.daily_pnl
            /\ IF rm.current_equity > 0
               THEN rm.daily_pnl[current_date] * 100
                        <= -cfg.MAX_DAILY_LOSS_PERCENT * rm.current_equity
               ELSE rm.daily_pnl[current_date] * 100
                        >= -cfg.MAX_DAILY_LOSS_PERCENT * rm.current_equity
    THEN "Daily loss limit reached"
    ELSE IF (open_risk(rm) + risk_amount) * 100
               > rm.current_equity * cfg.RISK_PER_TRADE_PERCENT * cfg.MAX_OPEN_POSITIONS
    THEN "Total risk exposure too high"
    ELSE "OK"

\* the Position open_position creates
NewPosition(symbol, side, entry_price, stop_loss, take_profit, entry_time, size) ==
    [symbol |-> symbol,
     side |-> side,
     entry_price |-> entry_price,
     stop_loss |-> stop_loss,
     take_profit |-> take_profit,
     size_lots |-> size,
     entry_time |-> entry_time,
     position_id |-> <<symbol, entry_time>>]

\* open_position appending the position before it asks can_open_position,
\* and returning None on a rejection without taking it back
open_position_registers_first(rm, symbol, side, entry_price, stop_loss, take_profit, entry_time, size_lots) ==
    LET size == IF IsNone(size_lots)
                THEN calculate_position_size(rm, entry_price, stop_loss,
                                             cfg.RISK_PER_TRADE_PERCENT)
                ELSE Get(size_lots)
        position == NewPosition(symbol, side, entry_price, stop_loss, take_profit,
                                entry_time, size)
        reason == can_open_position(rm, current_risk_amount(position), DateOf(entry_time))
        ref == Len(rm.positions) + 1
        registered == [rm EXCEPT !.positions = Append(@, position),
                                 !.open_positions = Append(@, ref)]
    IN  IF size = 0
        THEN [rm |-> rm, ret |-> None, raised |-> FALSE, printed |-> None]
        ELSE IF reason = "ZeroDivisionError"
        THEN [rm |-> registered, ret |-> None, raised |-> TRUE, printed |-> None]
        ELSE IF reason # "OK"
        THEN [rm |-> registered, ret |-> None, raised |-> FALSE, printed |-> Some(reason)]
        ELSE [rm |-> registered, ret |-> Some(ref), raised |-> FALSE, printed |-> None]

\* RiskManager.open_position: the manager afterwards, what is returned (None,
\* or the reference of the new Position), and the reason it prints when
\* can_open_position refuses; size_lots is None or a size
open_position(rm, symbol, side, entry_price, stop_loss, take_profit, entry_time, size_lots) ==
    LET size == IF IsNone(size_lots)
                THEN calculate_position_size(rm, entry_price, stop_loss,
                                             cfg.RISK_PER_TRADE_PERCENT)
                ELSE Get(size_lots)
        position == NewPosition(symbol, side, entry_price, stop_loss, take_profit,
                                entry_time, size)
        reason == can_open_position(rm, current_risk_amount(position), DateOf(entry_time))
        ref == Len(rm.positions) + 1
    IN  IF size = 0
        THEN [rm |-> rm, ret |-> None, raised |-> FALSE, printed |-> None]
        ELSE IF reason = "ZeroDivisionError"
        THEN [rm |-> rm, ret |-> None, raised |-> TRUE, printed |-> None]
        ELSE IF reason # "OK"
        THEN [rm |-> rm, ret |-> None, raised |-> FALSE, printed |-> Some(reason)]
        ELSE [rm |-> [rm EXCEPT !.positions = Append(@, position),
                                !.open_positions = Append(@, ref)],
              ret |-> Some(ref),
              raised |-> FALSE,
              printed |-> None]

\* list.remove(x): the index of the first element equal to x (Position is a
\* dataclass: equal fields), 0 when there is none (ValueError)
IndexOfEqual(heap, refs, position) ==
    LET hits == {k \in 1..Len(refs) : heap[refs[k]] = position}
    IN  IF hits = {} THEN 0 ELSE CHOOSE k \in hits : \A m \in hits : k <= m

RemoveAt(s, k) == SubSeq(s, 1, k - 1) \o SubSeq(s, k + 1, Len(s))

\* the Trade built by close_position
MakeTrade(position, exit_price, exit_time, exit_reason) ==
    LET pnl_pips == IF position.side = "LONG"
                    THEN exit_price - position.entry_price
                    ELSE position.entry_price - exit_price
    IN  [symbol |-> position.symbol,
         side |-> position.side,
         entry_price |-> position.entry_price,
         exit_price |-> exit_price,
         stop_loss |-> position.stop_loss,
         take_profit |-> position.take_profit,
         size_lots |-> position.size_lots,
         entry_time |-> position.entry_time,
         exit_time |-> exit_time,
         pnl_pips |-> pnl_pips,
         pnl_amount |-> pnl_pips * position.size_lots * 10,
         exit_reason |-> exit_reason,
         commission |-> cfg.COMMISSION_PER_LOT * position.size_lots]

\* close_position's update of equity and of the day's bucket
BookTrade(rm, trade) ==
    LET trade_date == DateOf(trade.exit_time)
        before == IF trade_date \in DOMAIN rm.daily_pnl
                  THEN rm.daily_pnl[trade_date] ELSE 0
    IN  [rm EXCEPT !.current_equity = @ + net_pnl(trade),
                   !.daily_pnl = [d \in DOMAIN @ \cup {trade_date} |->
                                     IF d = trade_date
                                     THEN before + net_pnl(trade)
                                     ELSE @[d]]]

\* close_position that leaves the position in open_positions
close_position_keeps_open(rm, ref, exit_price, exit_time, exit_reason) ==
    LET position == rm.positions[ref]
        trade == MakeTrade(position, exit_price, exit_time, exit_reason)
        booked == BookTrade(rm, trade)
        k == IndexOfEqual(rm.positions, rm.open_positions, position)
    IN  IF k = 0
        THEN [rm |-> booked, ret |-> None, raised |-> TRUE]
        ELSE [rm |-> [booked EXCEPT !.closed_trades = Append(@, trade)],
              ret |-> Some(trade),
              raised |-> FALSE]

\* RiskManager.close_position: equity and the day's bucket are updated, then
\* open_positions.remove(position) (which raises ValueError when no equal
\* position is in the list), then the trade is appended
close_position(rm, ref, exit_price, exit_time, exit_reason) ==
    LET position == rm.positions[ref]
        trade == MakeTrade(position, exit_price, exit_time, exit_reason)
        booked == BookTrade(rm, trade)
        k == IndexOfEqual(rm.positions, rm.open_positions, position)
    IN  IF k = 0
        THEN [rm |-> booked, ret |-> None, raised |-> TRUE]
        ELSE [rm |-> [booked EXCEPT !.open_positions = RemoveAt(@, k),
                                    !.closed_trades = Append(@, trade)],
              ret |-> Some(trade),
              raised |-> FALSE]

\* update_trailing_stop without its "only if tighter" tests: once active,
\* the stop follows the price both ways
TrailedStopFollowsPrice(position, current_price) ==
    LET pnl_pips == calculate_pnl(position, current_price)
        activation_pips == risk_pips(position) * cfg.TRAILING_STOP_ACTIVATION_RR
        trail_distance == cfg.TRAILING_STOP_DISTANCE_PIPS
    IN  IF ~cfg.USE_TRAILING_STOP THEN position.stop_loss
        ELSE IF pnl_pips < activation_pips THEN position.stop_loss
        ELSE IF position.side = "LONG" THEN current_price - trail_distance
        ELSE current_price + trail_distance

\* update_trailing_stop without the activation test: the stop trails as
\* soon as the candidate is tighter
TrailedStopAlwaysActive(position, current_price) ==
    LET trail_distance == cfg.TRAILING_STOP_DISTANCE_PIPS
        new_stop == IF position.side = "LONG"
                    THEN current_price - trail_distance
                    ELSE current_price + trail_distance
    IN  IF ~cfg.USE_TRAILING_STOP THEN position.stop_loss
        ELSE IF position.side = "LONG" /\ new_stop > position.stop_loss THEN new_stop
        ELSE IF position.side # "LONG" /\ new_stop < position.stop_loss THEN new_stop
        ELSE position.stop_loss

\* the stop update_trailing_stop leaves the position with
TrailedStop(position, current_price) ==
    LET pnl_pips == calculate_pnl(position, current_price)
        activation_pips == risk_pips(position) * cfg.TRAILING_STOP_ACTIVATION_RR
        trail_distance == cfg.TRAILING_STOP_DISTANCE_PIPS
        new_stop == IF position.side = "LONG"
                    THEN current_price - trail_distance
                    ELSE current_price + trail_distance
    IN  IF ~cfg.USE_TRAILING_STOP THEN position.stop_loss
        ELSE IF pnl_pips < activation_pips THEN position.stop_loss
        ELSE IF position.side = "LONG" /\ new_stop > position.stop_loss THEN new_stop
        ELSE IF position.side # "LONG" /\ new_stop < position.stop_loss THEN new_stop
        ELSE position.stop_loss

\* RiskManager.update_trailing_stop: the Position object is changed in place
update_trailing_stop(rm, ref, current_price) ==
    LET new_stop == TrailedStop(rm.positions[ref], current_price)
    IN  [rm |-> [rm EXCEPT !.positions[ref].stop_loss = new_stop],
         ret |-> new_stop # rm.positions[ref].stop_loss]

-----------------------------------------------------------------------------
(* strategy.py *)

\* AsianRange.range_pips
range_pips(asian_range) == asian_range.high - asian_range.low

\* is_valid without the lower bound of the band
is_valid_no_minimum(asian_range) == range_pips(asian_range) <= cfg.MAX_RANGE_PIPS

\* AsianRange.is_valid
is_valid(asian_range) ==
    /\ cfg.MIN_RANGE_PIPS <= range_pips(asian_range)
    /\ range_pips(asian_range) <= cfg.MAX_RANGE_PIPS

SeqMax(S) == CHOOSE x \in S : \A y \in S : y <= x
SeqMin(S) == CHOOSE x \in S : \A y \in S : x <= y

\* LondonBreakoutStrategy.identify_asian_range: None, or the valid range
identify_asian_range(df, target_date) ==
    LET asian_start == DateOf(target_date) * MinutesPerDay + cfg.ASIAN_SESSION_START
        asian_end == DateOf(target_date) * MinutesPerDay + cfg.ASIAN_SESSION_END
        asian_data == {k \in 1..Len(df) : df[k].t >= asian_start /\ df[k].t < asian_end}
        asian_range == [high |-> SeqMax({df[k].high : k \in asian_data}),
                        low |-> SeqMin({df[k].low : k \in asian_data}),
                        timestamp |-> asian_end]
    IN  IF asian_data = {} THEN None
        ELSE IF is_valid(asian_range) THEN Some(asian_range)
        ELSE None

RECURSIVE Pow(_, _)
Pow(b, e) == IF e = 0 THEN 1 ELSE b * Pow(b, e - 1)

RECURSIVE EmaNum(_, _, _)
\* ewm(span, adjust=False).mean() of closes[1..k], times (span + 1)^(k - 1):
\* ema_1 = c_1, ema_k = (2 c_k + (span - 1) ema_(k-1)) / (span + 1)
EmaNum(closes, span, k) ==
    IF k = 1 THEN closes[1]
    ELSE 2 * closes[k] * Pow(span + 1, k - 2) + (span - 1) * EmaNum(closes, span, k - 1)

\* LondonBreakoutStrategy.calculate_trend_direction
calculate_trend_direction(df, timestamp) ==
    LET historical == SelectSeq(df, LAMBDA b : b.t <= timestamp)
        n == Len(historical)
        closes == [k \in 1..n |-> historical[k].close]
        current_price == closes[n] * Pow(cfg.TREND_EMA_PERIOD + 1, n - 1)
        current_ema == EmaNum(closes, cfg.TREND_EMA_PERIOD, n)
    IN  IF ~cfg.USE_TREND_FILTER THEN 0
        ELSE IF n < cfg.TREND_EMA_PERIOD THEN 0
        ELSE IF current_price > current_ema THEN 1
        ELSE IF current_price < current_ema THEN -1
        ELSE 0

\* check_breakout with ">=" and "<=" for ">" and "<"
check_breakout_inclusive(current_bar, asian_range) ==
    LET breakout_buffer == cfg.BREAKOUT_BUFFER_PIPS
    IN  IF current_bar.close >= asian_range.high + breakout_buffer THEN "LONG"
        ELSE IF current_bar.close <= asian_range.low - breakout_buffer THEN "SHORT"
        ELSE "NONE"

\* LondonBreakoutStrategy.check_breakout
check_breakout(current_bar, asian_range) ==
    LET breakout_buffer == cfg.BREAKOUT_BUFFER_PIPS
    IN  IF current_bar.close > asian_range.high + breakout_buffer THEN "LONG"
        ELSE IF current_bar.close < asian_range.low - breakout_buffer THEN "SHORT"
        ELSE "NONE"

\* calculate_position_levels with the Short target on the wrong side of the
\* entry: "+" for "-"
calculate_position_levels_short_plus(signal_type, entry_price, asian_range) ==
    IF signal_type = "LONG"
    THEN <<asian_range.low,
           entry_price + (entry_price - asian_range.low) * cfg.RISK_REWARD_RATIO>>
    ELSE IF signal_type = "SHORT"
    THEN <<asian_range.high,
           entry_price + (asian_range.high - entry_price) * cfg.RISK_REWARD_RATIO>>
    ELSE <<0, 0>>

\* calculate_position_levels with the stop at the side of the range the
\* price broke through
calculate_position_levels_near_side(signal_type, entry_price, asian_range) ==
    IF signal_type = "LONG"
    THEN <<asian_range.high,
           entry_price + (entry_price - asian_range.high) * cfg.RISK_REWARD_RATIO>>
    ELSE IF signal_type = "SHORT"
    THEN <<asian_range.low,
           entry_price - (asian_range.low - entry_price) * cfg.RISK_REWARD_RATIO>>
    ELSE <<0, 0>>

\* LondonBreakoutStrategy.calculate_position_levels: <<stop_loss, take_profit>>
calculate_position_levels(signal_type, entry_price, asian_range) ==
    IF signal_type = "LONG"
    THEN <<asian_range.low,
           entry_price + (entry_price - asian_range.low) * cfg.RISK_REWARD_RATIO>>
    ELSE IF signal_type = "SHORT"
    THEN <<asian_range.high,
           entry_price - (asian_range.high - entry_price) * cfg.RISK_REWARD_RATIO>>
    ELSE <<0, 0>>

\* a risk-reward test that lets every candidate through
BelowMinRiskRewardNever(signal) == FALSE

\* TradeSignal.risk_reward_ratio < MIN_RISK_REWARD
BelowMinRiskReward(signal) ==
    LET risk == Abs(signal.entry_price - signal.stop_loss)
        reward == Abs(signal.take_profit - signal.entry_price)
    IN  IF risk = 0 THEN 0 < MIN_RISK_REWARD_NUM
        ELSE FracLess(reward, risk, MIN_RISK_REWARD_NUM, MIN_RISK_REWARD_DEN)

\* the end of the trading window, a time of day: (datetime.combine(date,
\* LONDON_OPEN) + timedelta(hours=TRADING_WINDOW_HOURS)).time()
london_window_end == (cfg.LONDON_OPEN + 60 * cfg.TRADING_WINDOW_HOURS) % MinutesPerDay

\* a trading window with no end
InTradingWindowOpenEnded(current_time) == cfg.LONDON_OPEN <= TimeOf(current_time)

InTradingWindow(current_time) ==
    /\ cfg.LONDON_OPEN <= TimeOf(current_time)
    /\ TimeOf(current_time) <= london_window_end

\* the condition under which generate_signal calls identify_asian_range: no
\* range is held, or the one held is another day's
RangeMissing(sg, current_time) ==
    \/ IsNone(sg.current_range)
    \/ DateOf(Get(sg.current_range).timestamp) # DateOf(current_time)

\* the range generate_signal works with: the cached one, or a new one when
\* none is cached or the cached one is another day's
RangeFor(sg, df, current_time) ==
    IF RangeMissing(sg, current_time)
    THEN identify_asian_range(df, current_time)
    ELSE sg.current_range

\* df.loc[current_time] if current_time in df.index else None
BarAt(df, current_time) ==
    LET hits == {k \in 1..Len(df) : df[k].t = current_time}
    IN  IF hits = {} THEN None ELSE Some(df[CHOOSE k \in hits : TRUE])

\* the signal generate_signal builds once a breakout is seen
MakeSignal(signal_type, current_time, current_bar, asian_range) ==
    LET levels == calculate_position_levels(signal_type, current_bar.close, asian_range)
    IN  [signal_type |-> signal_type,
         timestamp |-> current_time,
         entry_price |-> current_bar.close,
         stop_loss |-> levels[1],
         take_profit |-> levels[2],
         asian_range |-> asian_range]

\* a trend test that lets every breakout through
AgainstTrendNever(signal_type, trend) == FALSE

\* generate_signal's test of a breakout against the trend
AgainstTrend(signal_type, trend) ==
    \/ signal_type = "LONG" /\ trend = -1
    \/ signal_type = "SHORT" /\ trend = 1

\* generate_signal without its one-signal-per-day guard
NeverSignalled(sg, current_time) == FALSE

\* the guard comparing last_signal_date with the day before the call's
SignalledTheDayBefore(sg, current_time) ==
    sg.last_signal_date = Some(DateOf(current_time) - 1)

\* one signal per day: the guard that opens generate_signal
AlreadySignalled(sg, current_time) == sg.last_signal_date = Some(DateOf(current_time))

\* LondonBreakoutStrategy.generate_signal: the strategy afterwards, the
\* signal returned (or None), and whether the call ran identify_asian_range
generate_signal(sg, df, current_time) ==
    LET rng == RangeFor(sg, df, current_time)
        sg1 == [sg EXCEPT !.current_range = rng]
        bar == BarAt(df, current_time)
        signal_type == check_breakout(Get(bar), Get(rng))
        trend == calculate_trend_direction(df, current_time)
        scanned == RangeMissing(sg, current_time)
        signal == MakeSignal(signal_type, current_time, Get(bar), Get(rng))
    IN  IF AlreadySignalled(sg, current_time) THEN [sg |-> sg, ret |-> None, scanned |-> FALSE]
        ELSE IF ~InTradingWindow(current_time) THEN [sg |-> sg, ret |-> None, scanned |-> FALSE]
        ELSE IF IsNone(rng) THEN [sg |-> sg1, ret |-> None, scanned |-> scanned]
        ELSE IF IsNone(bar) THEN [sg |-> sg1, ret |-> None, scanned |-> scanned]
        ELSE IF signal_type = "NONE" THEN [sg |-> sg1, ret |-> None, scanned |-> scanned]
        ELSE IF cfg.TRADE_WITH_TREND_ONLY /\ AgainstTrend(signal_type, trend)
        THEN [sg |-> sg1, ret |-> None, scanned |-> scanned]
        ELSE IF BelowMinRiskReward(signal) THEN [sg |-> sg1, ret |-> None, scanned |-> scanned]
        ELSE [sg |-> [sg1 EXCEPT !.last_signal_date = Some(DateOf(current_time))],
              ret |-> Some(signal), scanned |-> scanned]

\* should_exit_time_based true only after the exit time, not at it
should_exit_time_based_after(current_time) ==
    LET exit_time == DateOf(current_time) * MinutesPerDay
                        + cfg.LONDON_CLOSE - cfg.EXIT_BEFORE_CLOSE_MINUTES
    IN  cfg.USE_TIME_EXIT /\ current_time > exit_time

\* LondonBreakoutStrategy.should_exit_time_based
should_exit_time_based(current_time) ==
    LET exit_time == DateOf(current_time) * MinutesPerDay
                        + cfg.LONDON_CLOSE - cfg.EXIT_BEFORE_CLOSE_MINUTES
    IN  cfg.USE_TIME_EXIT /\ current_time >= exit_time

-----------------------------------------------------------------------------
(* backtest.py: the statistics of _generate_results *)

\* RiskManager.average_win / average_loss / np.mean: 0.0 for an empty list
MeanNetPnl(trades) ==
    IF trades = <<>> THEN Frac(0, 1) ELSE Frac(SumNetPnl(trades), Len(trades))

NetPnlSet(trades) == {net_pnl(trades[k]) : k \in 1..Len(trades)}

\* RiskManager.get_statistics: the short dict of an empty trade log has only
\* four keys
get_statistics(rm) ==
    LET winners == SelectSeq(rm.closed_trades, was_winner)
        losers == SelectSeq(rm.closed_trades, not_winner)
    IN  IF rm.closed_trades = <<>>
        THEN [total_trades |-> 0,
              win_rate |-> Frac(0, 1),
              total_pnl |-> 0,
              profit_factor |-> Frac(0, 1)]
        ELSE [total_trades |-> Len(rm.closed_trades),
              winners |-> Len(winners),
              losers |-> Len(losers),
              win_rate |-> win_rate(rm),
              total_pnl |-> total_pnl(rm),
              total_pnl_percent |-> Frac(total_pnl(rm) * 100, rm.initial_capital),
              profit_factor |-> profit_factor(rm),
              average_win |-> MeanNetPnl(winners),
              average_loss |-> MeanNetPnl(losers),
              largest_win |-> IF winners = <<>> THEN 0 ELSE SeqMax(NetPnlSet(winners)),
              largest_loss |-> IF losers = <<>> THEN 0 ELSE SeqMin(NetPnlSet(losers)),
              average_trade |-> MeanNetPnl(rm.closed_trades),
              current_equity |-> rm.current_equity,
              return_percent |->
                  Frac((rm.current_equity - rm.initial_capital) * 100, rm.initial_capital)]

\* equity_series.expanding().max() at k
running_max(curve, k) == SeqMax({curve[m] : m \in 1..k})

\* drawdown[k1] < drawdown[k2], each (equity - running_max) / running_max * 100
\* (the running maximum is positive: it is at least the initial capital)
DrawdownLess(curve, k1, k2) ==
    (curve[k1] - running_max(curve, k1)) * running_max(curve, k2)
        < (curve[k2] - running_max(curve, k2)) * running_max(curve, k1)

\* the drawdown taken as the distance below the peak, (running_max -
\* equity) / running_max * 100, and its largest value
max_drawdown_magnitude(curve) ==
    LET k == CHOOSE k1 \in 1..Len(curve) :
                 \A k2 \in 1..Len(curve) : ~DrawdownLess(curve, k2, k1)
    IN  Frac((running_max(curve, k) - curve[k]) * 100, running_max(curve, k))

\* drawdown.min(), a percentage as a fraction
max_drawdown(curve) ==
    LET k == CHOOSE k1 \in 1..Len(curve) :
                 \A k2 \in 1..Len(curve) : ~DrawdownLess(curve, k2, k1)
    IN  Frac((curve[k] - running_max(curve, k)) * 100, running_max(curve, k))

\* equity_series.min() - running_max[equity_series.idxmin()]
max_drawdown_amount(curve) ==
    LET lowest == SeqMin({curve[k] : k \in 1..Len(curve)})
        idxmin == CHOOSE k \in 1..Len(curve) :
                      curve[k] = lowest /\ \A m \in 1..(k - 1) : curve[m] # lowest
    IN  lowest - running_max(curve, idxmin)

\* equity_series.pct_change().dropna(): return k is (e[k+1] - e[k]) / e[k]
ReturnIdx(curve) == 1..(Len(curve) - 1)
ReturnNum(curve, k) == curve[k + 1] - curve[k]
ReturnsEqual(curve, j, k) == ReturnNum(curve, j) * curve[k] = ReturnNum(curve, k) * curve[j]

\* std() > 0 of the returns with index in S: the sample deviation (ddof = 1)
\* is NaN for one value and 0 when all values are equal
StdPositive(curve, S) ==
    /\ Cardinality(S) >= 2
    /\ \E j, k \in S : ~ReturnsEqual(curve, j, k)

\* a ratio the code computes in floating point is kept as a term: zero is
\* TRUE when the code's guard yields the literal 0
RatioTerm(guard) == [zero |-> ~guard, term |-> IF guard THEN "sqrt(252)*mean/std" ELSE "0"]

sharpe_ratio(curve) ==
    RatioTerm(Cardinality(ReturnIdx(curve)) > 0 /\ StdPositive(curve, ReturnIdx(curve)))

sortino_ratio(curve) ==
    LET negative_returns == {k \in ReturnIdx(curve) :
                                FracSign(ReturnNum(curve, k), curve[k]) < 0}
    IN  RatioTerm(Cardinality(negative_returns) > 0 /\ StdPositive(curve, negative_returns))

RECURSIVE ScanStreaks(_, _, _, _, _)
\* the loop of _calculate_consecutive_trades
ScanStreaks(trades, max_wins, max_losses, current_wins, current_losses) ==
    IF trades = <<>> THEN <<max_wins, max_losses>>
    ELSE IF was_winner(Head(trades))
    THEN ScanStreaks(Tail(trades),
                     IF current_wins + 1 > max_wins THEN current_wins + 1 ELSE max_wins,
                     max_losses, current_wins + 1, 0)
    ELSE ScanStreaks(Tail(trades), max_wins,
                     IF current_losses + 1 > max_losses THEN current_losses + 1 ELSE max_losses,
                     0, current_losses + 1)

\* BacktestEngine._calculate_consecutive_trades
calculate_consecutive_trades(rm) ==
    IF rm.closed_trades = <<>> THEN <<0, 0>>
    ELSE ScanStreaks(rm.closed_trades, 0, 0, 0, 0)

\* BacktestEngine._generate_results
generate_results(rm, curve, index, df) ==
    LET streaks == calculate_consecutive_trades(rm)
    IN  Merge(get_statistics(rm),
              [max_drawdown |-> max_drawdown(curve),
               max_drawdown_amount |-> max_drawdown_amount(curve),
               sharpe_ratio |-> sharpe_ratio(curve),
               sortino_ratio |-> sortino_ratio(curve),
               max_consecutive_wins |-> streaks[1],
               max_consecutive_losses |-> streaks[2],
               total_days |-> DateOf(df[Len(df)].t - df[1].t),
               equity_curve |-> [k \in 1..Len(curve) |-> <<index[k], curve[k]>>],
               trades |-> rm.closed_trades])

\* the keys _print_results reads from the results dict
PrintedKeys ==
    {"total_trades", "winners", "losers", "win_rate", "profit_factor",
     "average_win", "average_loss", "largest_win", "largest_loss", "total_pnl",
     "total_pnl_percent", "current_equity", "return_percent", "max_drawdown",
     "sharpe_ratio", "sortino_ratio", "max_consecutive_wins",
     "max_consecutive_losses"}

\* BacktestEngine._print_results raises KeyError on a key the dict lacks
print_results_raises(res) == ~(PrintedKeys \subseteq DOMAIN res)

-----------------------------------------------------------------------------
(* backtest.py: BacktestEngine *)

\* BacktestEngine(symbol, initial_capital): 1,000.00 dollars, in cents
InitialCapital == 100000
Symbol == "EURUSD"

RM ==
    [initial_capital |-> InitialCapital,
     current_equity |-> current_equity,
     positions |-> positions,
     open_positions |-> open_positions,
     closed_trades |-> closed_trades,
     daily_pnl |-> daily_pnl]

SG == [current_range |-> current_range, last_signal_date |-> last_signal_date]

SetRM(rm) ==
    /\ current_equity' = rm.current_equity
    /\ positions' = rm.positions
    /\ open_positions' = rm.open_positions
    /\ closed_trades' = rm.closed_trades
    /\ daily_pnl' = rm.daily_pnl

SetSG(sg) ==
    /\ current_range' = sg.current_range
    /\ last_signal_date' = sg.last_signal_date

rmVars == <<current_equity, positions, open_positions, closed_trades, daily_pnl>>
sgVars == <<current_range, last_signal_date>>

\* _process_bar with the two price tests in the other order: the target
\* before the stop
ExitDecisionTargetFirst(position, bar, current_time) ==
    LET hit == IF position.side = "LONG"
               THEN (IF bar.high >= position.take_profit
                     THEN <<Some(position.take_profit), "TP">>
                     ELSE IF bar.low <= position.stop_loss
                     THEN <<Some(position.stop_loss), "SL">>
                     ELSE <<None, "">>)
               ELSE (IF bar.low <= position.take_profit
                     THEN <<Some(position.take_profit), "TP">>
                     ELSE IF bar.high >= position.stop_loss
                     THEN <<Some(position.stop_loss), "SL">>
                     ELSE <<None, "">>)
    IN  IF IsNone(hit[1]) /\ should_exit_time_based(current_time)
        THEN <<Some(bar.close), "TIME">>
        ELSE hit

\* _process_bar without the test of the target: a position leaves at its
\* stop or at the time exit only
ExitDecisionNoTarget(position, bar, current_time) ==
    LET hit == IF position.side = "LONG"
               THEN (IF bar.low <= position.stop_loss
                     THEN <<Some(position.stop_loss), "SL">>
                     ELSE <<None, "">>)
               ELSE (IF bar.high >= position.stop_loss
                     THEN <<Some(position.stop_loss), "SL">>
                     ELSE <<None, "">>)
    IN  IF IsNone(hit[1]) /\ should_exit_time_based(current_time)
        THEN <<Some(bar.close), "TIME">>
        ELSE hit

\* _process_bar filling a stop at the worse of the stop and the bar's
\* extreme, as a bar that opens beyond the stop would
ExitDecisionAtExtreme(position, bar, current_time) ==
    LET hit == IF position.side = "LONG"
               THEN (IF bar.low <= position.stop_loss
                     THEN <<Some(bar.low), "SL">>
                     ELSE IF bar.high >= position.take_profit
                     THEN <<Some(position.take_profit), "TP">>
                     ELSE <<None, "">>)
               ELSE (IF bar.high >= position.stop_loss
                     THEN <<Some(bar.high), "SL">>
                     ELSE IF bar.low <= position.take_profit
                     THEN <<Some(position.take_profit), "TP">>
                     ELSE <<None, "">>)
    IN  IF IsNone(hit[1]) /\ should_exit_time_based(current_time)
        THEN <<Some(bar.close), "TIME">>
        ELSE hit

\* the exit _process_bar decides for one open position on one bar: the stop
\* before the target, then the time exit; price None when nothing triggers
ExitDecision(position, bar, current_time) ==
    LET hit == IF position.side = "LONG"
               THEN (IF bar.low <= position.stop_loss
                     THEN <<Some(position.stop_loss), "SL">>
                     ELSE IF bar.high >= position.take_profit
                     THEN <<Some(position.take_profit), "TP">>
                     ELSE <<None, "">>)
               ELSE (IF bar.high >= position.stop_loss
                     THEN <<Some(position.stop_loss), "SL">>
                     ELSE IF bar.low <= position.take_profit
                     THEN <<Some(position.take_profit), "TP">>
                     ELSE <<None, "">>)
    IN  IF IsNone(hit[1]) /\ should_exit_time_based(current_time)
        THEN <<Some(bar.close), "TIME">>
        ELSE hit

\* the loop body with the trailing stop updated on every bar, before the
\* exit that was decided is carried out
ProcessPositionTrailsFirst(rm, ref, bar, current_time) ==
    LET exit == ExitDecision(rm.positions[ref], bar, current_time)
        trailed == update_trailing_stop(rm, ref, bar.close).rm
    IN  IF IsNone(exit[1])
        THEN trailed
        ELSE close_position(trailed, ref, Get(exit[1]), current_time, exit[2]).rm

\* one pass of the loop over open_positions.copy(): the trailing stop is
\* updated when no exit triggers, the position is closed otherwise
ProcessPosition(rm, ref, bar, current_time) ==
    LET exit == ExitDecision(rm.positions[ref], bar, current_time)
    IN  IF IsNone(exit[1])
        THEN update_trailing_stop(rm, ref, bar.close).rm
        ELSE close_position(rm, ref, Get(exit[1]), current_time, exit[2]).rm

RECURSIVE CheckExits(_, _, _, _)
\* for position in self.risk_manager.open_positions.copy(): ...
CheckExits(rm, snapshot, bar, current_time) ==
    IF snapshot = <<>> THEN rm
    ELSE CheckExits(ProcessPosition(rm, Head(snapshot), bar, current_time),
                    Tail(snapshot), bar, current_time)

\* _process_bar without the open_symbols test: a signal is asked for on
\* every bar
SignalAlwaysAsked(rm) == TRUE

\* "if self.symbol not in open_symbols": a signal is asked for
NoPositionOpen(rm) ==
    \A k \in 1..Len(rm.open_positions) : rm.positions[rm.open_positions[k]].symbol # Symbol

\* BacktestEngine._execute_signal
execute_signal(rm, signal, current_time) ==
    open_position(rm, Symbol,
                  IF signal.signal_type = "LONG" THEN "LONG" ELSE "SHORT",
                  signal.entry_price, signal.stop_loss, signal.take_profit,
                  current_time, None)

\* run() without its closing loop: the positions stay open
CloseNone(rm, snapshot, last_price, last_time) == rm

RECURSIVE CloseAll(_, _, _, _)
\* run(): "Close any remaining open positions at end"
CloseAll(rm, snapshot, last_price, last_time) ==
    IF snapshot = <<>> THEN rm
    ELSE CloseAll(close_position(rm, Head(snapshot), last_price, last_time, "END").rm,
                  Tail(snapshot), last_price, last_time)

-----------------------------------------------------------------------------
(* the bar series run() is given: bars of a few shapes at a few times of   *)
(* day, timestamps strictly increasing                                     *)

MaxBars == 4
MaxDays == 2

\* 03:00 (Asian session), 08:00 and 10:00 (the ends of the trading window),
\* 15:30 (the time exit) and 16:30 (after it)
TimesOfDay == {180, 480, 600, 930, 990}

LastTime == IF bars = <<>> THEN -1 ELSE bars[Len(bars)].t

\* the next bar is the next of these times on the same day, or the first
\* one of the next day; a series may lack the 15:30 bar, so that its first
\* bar from the exit time on is the 16:30 one; a run starts at 03:00 or at
\* 08:00 of day 0
NextTimes ==
    IF bars = <<>> THEN {180, 480}
    ELSE LET later == {m \in TimesOfDay : m > TimeOf(LastTime)}
             next == {m1 \in later : \A m2 \in later : m1 <= m2}
             late == {m \in later :
                         m >= cfg.LONDON_CLOSE - cfg.EXIT_BEFORE_CLOSE_MINUTES}
         IN  {DateOf(LastTime) * MinutesPerDay + m :
                  m \in next \cup (IF next \subseteq late THEN late ELSE {})}
             \cup {(DateOf(LastTime) + 1) * MinutesPerDay + 180 :
                       d \in {DateOf(LastTime)} \cap 0..(MaxDays - 2)}

Shape(low, close, high) == [low |-> low, close |-> close, high |-> high]

\* with the session range 20..40 of Shape(20, 30, 40): a close above 42 or
\* below 18 breaks out; a Long from 50 has its stop at 20 and its target at
\* 110, a Short from 10 its stop at 40 and its target at -50; a Long from
\* 230 risks 210 pips, for which the computed size rounds to 0 lots
Shapes ==
    {Shape(20, 30, 40), Shape(-50, 50, 110), Shape(5, 10, 15),
     Shape(70, 85, 90), Shape(-30, -20, -10), Shape(100, 230, 240)}

Bar(t, shape) == [t |-> t, high |-> shape.high, low |-> shape.low, close |-> shape.close]

Configs ==
    {DefaultConfig,
     [DefaultConfig EXCEPT !.USE_TIME_EXIT = FALSE, !.USE_TRAILING_STOP = FALSE]}

Init ==
    /\ cfg \in Configs
    /\ bars = <<>>
    /\ pc = "run"
    /\ current_equity = InitialCapital
    /\ positions = <<>>
    /\ open_positions = <<>>
    /\ closed_trades = <<>>
    /\ daily_pnl = <<>>
    /\ current_range = None
    /\ last_signal_date = None
    /\ equity_curve = <<>>
    /\ dates = <<>>
    /\ results = None
    /\ signal_log = <<>>
    /\ calls = 0
    /\ optimizer = None

\* run(): "Filter date range".  start_date and end_date are None or a date
\* (a 'YYYY-MM-DD' string compares as that day's midnight)
FilterDates(df, start_date, end_date) ==
    SelectSeq(df, LAMBDA b :
        /\ IsNone(start_date) \/ b.t >= Get(start_date) * MinutesPerDay
        /\ IsNone(end_date) \/ b.t <= Get(end_date) * MinutesPerDay)

\* frames and date arguments run() may be given: no bar at all, a session
\* bar of day 0, a session bar of day 0 and one of day 1
GivenFrames ==
    {<<>>,
     <<Bar(180, Shape(20, 30, 40))>>,
     <<Bar(180, Shape(20, 30, 40)), Bar(1620, Shape(5, 10, 15))>>}

DateArgs == {None, Some(0), Some(1), Some(2)}

\* run() with the empty check made only after the first equity point has
\* been put on the curve
RunEmptyAfterFirstPoint ==
    /\ pc = "run"
    /\ \E df \in GivenFrames, start_date \in DateArgs, end_date \in DateArgs :
           FilterDates(df, start_date, end_date) = <<>>
    /\ equity_curve' = Append(equity_curve, current_equity)
    /\ pc' = "raised"
    /\ UNCHANGED <<cfg, optimizer, bars, rmVars, sgVars, dates, results, signal_log, calls>>

\* run() on a frame that is empty after the date filter: ValueError before
\* the loop
RunEmpty ==
    /\ pc = "run"
    /\ \E df \in GivenFrames, start_date \in DateArgs, end_date \in DateArgs :
           FilterDates(df, start_date, end_date) = <<>>
    /\ pc' = "raised"
    /\ UNCHANGED <<cfg, optimizer, bars, rmVars, sgVars, equity_curve, dates, results,
                   signal_log, calls>>

\* _process_bar recording the equity after the bar's exits instead of
\* before them
RecordEquityAfterExits(bar) ==
    /\ pc \in {"run", "loop"}
    /\ Len(bars) < MaxBars
    /\ bar.t \in NextTimes
    /\ bars' = Append(bars, bar)
    /\ equity_curve' = Append(equity_curve,
                              CheckExits(RM, open_positions, bar, bar.t).current_equity)
    /\ dates' = Append(dates, bar.t)
    /\ pc' = "exits"
    /\ UNCHANGED <<cfg, optimizer, rmVars, sgVars, results, signal_log, calls>>

\* the loop of run() takes the next bar; _process_bar first records the
\* equity and the timestamp
RecordEquity(bar) ==
    /\ pc \in {"run", "loop"}
    /\ Len(bars) < MaxBars
    /\ bar.t \in NextTimes
    /\ bars' = Append(bars, bar)
    /\ equity_curve' = Append(equity_curve, current_equity)
    /\ dates' = Append(dates, bar.t)
    /\ pc' = "exits"
    /\ UNCHANGED <<cfg, optimizer, rmVars, sgVars, results, signal_log, calls>>

\* _process_bar: "Check open positions for exit conditions"
ProcessExits ==
    /\ pc = "exits"
    /\ SetRM(CheckExits(RM, open_positions, bars[Len(bars)], LastTime))
    /\ pc' = "signal"
    /\ UNCHANGED <<cfg, optimizer, bars, sgVars, equity_curve, dates, results, signal_log, calls>>

\* _process_bar asking for the signal first and checking the exits, those
\* of the newly opened position included, afterwards
ProcessSignalThenExits ==
    /\ pc = "signal"
    /\ IF NoPositionOpen(RM)
       THEN LET g == generate_signal(SG, bars, LastTime)
                o == execute_signal(RM, Get(g.ret), LastTime)
            IN  /\ SetSG(g.sg)
                /\ signal_log' = Append(signal_log, <<LastTime, g.ret, g.scanned>>)
                /\ IF IsNone(g.ret)
                   THEN pc' = "loop" /\ UNCHANGED rmVars
                   ELSE /\ SetRM(CheckExits(o.rm, o.rm.open_positions,
                                            bars[Len(bars)], LastTime))
                        /\ pc' = IF o.raised THEN "raised" ELSE "loop"
       ELSE pc' = "loop" /\ UNCHANGED <<rmVars, sgVars, signal_log>>
    /\ UNCHANGED <<cfg, optimizer, bars, equity_curve, dates, results, calls>>

\* _process_bar giving the day's signal back when open_position refuses it:
\* last_signal_date is left as it was before the call
ProcessSignalRetriesRejected ==
    /\ pc = "signal"
    /\ IF NoPositionOpen(RM)
       THEN LET g == generate_signal(SG, bars, LastTime)
                o == execute_signal(RM, Get(g.ret), LastTime)
            IN  /\ signal_log' = Append(signal_log, <<LastTime, g.ret, g.scanned>>)
                /\ IF IsNone(g.ret)
                   THEN SetSG(g.sg) /\ pc' = "loop" /\ UNCHANGED rmVars
                   ELSE /\ SetSG(IF IsNone(o.ret)
                                 THEN [g.sg EXCEPT !.last_signal_date = last_signal_date]
                                 ELSE g.sg)
                        /\ SetRM(o.rm)
                        /\ pc' = IF o.raised THEN "raised" ELSE "loop"
       ELSE pc' = "loop" /\ UNCHANGED <<rmVars, sgVars, signal_log>>
    /\ UNCHANGED <<cfg, optimizer, bars, equity_curve, dates, results, calls>>

\* _process_bar: "Generate new signals if no position open for this symbol"
ProcessSignal ==
    /\ pc = "signal"
    /\ IF NoPositionOpen(RM)
       THEN LET g == generate_signal(SG, bars, LastTime)
                o == execute_signal(RM, Get(g.ret), LastTime)
            IN  /\ SetSG(g.sg)
                /\ signal_log' = Append(signal_log, <<LastTime, g.ret, g.scanned>>)
                /\ IF IsNone(g.ret)
                   THEN pc' = "loop" /\ UNCHANGED rmVars
                   ELSE /\ SetRM(o.rm)
                        /\ pc' = IF o.raised THEN "raised" ELSE "loop"
       ELSE pc' = "loop" /\ UNCHANGED <<rmVars, sgVars, signal_log>>
    /\ UNCHANGED <<cfg, optimizer, bars, equity_curve, dates, results, calls>>

\* run(): the bars are exhausted; the remaining positions are closed at the
\* last close
EndOfData ==
    /\ pc = "loop"
    /\ SetRM(CloseAll(RM, open_positions, bars[Len(bars)].close, LastTime))
    /\ pc' = "results"
    /\ UNCHANGED <<cfg, optimizer, bars, sgVars, equity_curve, dates, results, signal_log, calls>>

\* run(): results = self._generate_results(df), then
\* self._print_results(results), which raises KeyError on a missing key, and
\* return results
Report ==
    /\ pc = "results"
    /\ results' = Some(generate_results(RM, equity_curve, dates, bars))
    /\ pc' = IF print_results_raises(Get(results')) THEN "raised" ELSE "done"
    /\ UNCHANGED <<cfg, optimizer, bars, rmVars, sgVars, equity_curve, dates, signal_log, calls>>

Next ==
    \/ RunEmpty
    \/ \E t \in NextTimes, shape \in Shapes : RecordEquity(Bar(t, shape))
    \/ ProcessExits
    \/ ProcessSignal
    \/ EndOfData
    \/ Report

Spec == Init /\ [][Next]_vars

-----------------------------------------------------------------------------
(* a caller of the RiskManager: any sequence of open_position,             *)
(* close_position and update_trailing_stop calls, on any Position object   *)
(* the manager has handed out, open or not                                 *)

MaxCalls == 4

Order(side, entry_price, stop_loss, take_profit) ==
    [side |-> side, entry_price |-> entry_price,
     stop_loss |-> stop_loss, take_profit |-> take_profit]

\* the two entries of the simulation's comments above
Orders == {Order("LONG", 50, 20, 110), Order("SHORT", 10, 40, -50)}

\* size_lots: computed by the manager (0.03 lots, a risk of 9.00), or given
\* by the caller: 0, 0.01 lots (a risk of 3.00) or 0.05 lots (a risk of 15.00,
\* half of the exposure allowed on 1,000.00)
Sizes == {None, Some(0), Some(1), Some(5)}

\* 10:00 of day 0 and of day 1
CallTimes == {600, 2040}

\* a Long from 50 with its stop at 20 trails from 80 upwards, a Short from
\* 10 with its stop at 40 from -20 downwards; at 75 the Long is 25 pips in
\* profit, less than the 30 it risked
Prices == {-25, -20, 75, 80, 85}

\* exits: a Long from 50 loses 105 pips at -55 (more than 3% of the equity
\* at the computed size) and wins 35 at 85; a Short from 10 wins 65 and
\* loses 75
ExitPrices == {-55, 85}

\* the caller's record of its last call, with what the call printed
Called(call, ref, price, ret, raised) ==
    Some([call |-> call, ref |-> ref, price |-> price, ret |-> ret, raised |-> raised,
          printed |-> None])

CalledOpen(o, entry_price) ==
    Some([call |-> "open_position", ref |-> o.ret, price |-> entry_price,
          ret |-> o.ret, raised |-> o.raised, printed |-> o.printed])

InitRM ==
    /\ cfg \in Configs
    /\ bars = <<>>
    /\ pc = "api"
    /\ current_equity = InitialCapital
    /\ positions = <<>>
    /\ open_positions = <<>>
    /\ closed_trades = <<>>
    /\ daily_pnl = <<>>
    /\ current_range = None
    /\ last_signal_date = None
    /\ equity_curve = <<>>
    /\ dates = <<>>
    /\ results = None
    /\ signal_log = <<>>
    /\ calls = 0
    /\ optimizer = None

OpenPosition(order, entry_time, size_lots) ==
    /\ pc = "api"
    /\ calls < MaxCalls
    /\ LET o == open_position(RM, Symbol, order.side, order.entry_price,
                              order.stop_loss, order.take_profit, entry_time, size_lots)
       IN  /\ SetRM(o.rm)
           /\ results' = CalledOpen(o, order.entry_price)
    /\ calls' = calls + 1
    /\ UNCHANGED <<cfg, optimizer, bars, pc, sgVars, equity_curve, dates, signal_log>>

\* the caller may pass a Position that is no longer open; the ValueError of
\* list.remove reaches the caller, and the manager stays as the call left it
ClosePosition(ref, exit_price, exit_time) ==
    /\ pc = "api"
    /\ calls < MaxCalls
    /\ ref \in 1..Len(positions)
    /\ exit_time >= positions[ref].entry_time
    /\ LET c == close_position(RM, ref, exit_price, exit_time, "MANUAL")
       IN  /\ SetRM(c.rm)
           /\ results' = Called("close_position", ref, exit_price, c.ret, c.raised)
    /\ calls' = calls + 1
    /\ UNCHANGED <<cfg, optimizer, bars, pc, sgVars, equity_curve, dates, signal_log>>

UpdateTrailingStop(ref, current_price) ==
    /\ pc = "api"
    /\ calls < MaxCalls
    /\ ref \in 1..Len(positions)
    /\ LET u == update_trailing_stop(RM, ref, current_price)
       IN  /\ SetRM(u.rm)
           /\ results' = Called("update_trailing_stop", ref, current_price, u.ret, FALSE)
    /\ calls' = calls + 1
    /\ UNCHANGED <<cfg, optimizer, bars, pc, sgVars, equity_curve, dates, signal_log>>

NextRM ==
    \/ \E order \in Orders, entry_time \in CallTimes, size_lots \in Sizes :
           OpenPosition(order, entry_time, size_lots)
    \/ \E ref \in 1..Len(positions), exit_price \in ExitPrices, exit_time \in CallTimes :
           ClosePosition(ref, exit_price, exit_time)
    \/ \E ref \in 1..Len(positions), current_price \in Prices :
           UpdateTrailingStop(ref, current_price)

SpecRM == InitRM /\ [][NextRM]_vars

-----------------------------------------------------------------------------
(* a caller of the strategy: the frame grows bar by bar, and                *)
(* generate_signal is called for the timestamp of any bar of the frame, in *)
(* any order and any number of times                                       *)

MaxSignalCalls == 3

\* a session bar, a bar closing above the range and a bar closing below it
SignalShapes == {Shape(20, 30, 40), Shape(-50, 50, 110), Shape(5, 10, 15)}

InitSG ==
    /\ cfg = DefaultConfig
    /\ bars = <<>>
    /\ pc = "strategy"
    /\ current_equity = InitialCapital
    /\ positions = <<>>
    /\ open_positions = <<>>
    /\ closed_trades = <<>>
    /\ daily_pnl = <<>>
    /\ current_range = None
    /\ last_signal_date = None
    /\ equity_curve = <<>>
    /\ dates = <<>>
    /\ results = None
    /\ signal_log = <<>>
    /\ calls = 0
    /\ optimizer = None

FeedBar(bar) ==
    /\ pc = "strategy"
    /\ Len(bars) < MaxBars
    /\ bar.t \in NextTimes
    /\ bars' = Append(bars, bar)
    /\ UNCHANGED <<cfg, optimizer, pc, rmVars, sgVars, equity_curve, dates, results,
                   signal_log, calls>>

GenerateSignal(current_time) ==
    /\ pc = "strategy"
    /\ calls < MaxSignalCalls
    /\ LET g == generate_signal(SG, bars, current_time)
       IN  /\ SetSG(g.sg)
           /\ signal_log' = Append(signal_log, <<current_time, g.ret, g.scanned>>)
    /\ calls' = calls + 1
    /\ UNCHANGED <<cfg, optimizer, bars, pc, rmVars, equity_curve, dates, results>>

NextSG ==
    \/ \E t \in NextTimes, shape \in SignalShapes : FeedBar(Bar(t, shape))
    \/ \E k \in 1..Len(bars) : GenerateSignal(bars[k].t)

SpecSG == InitSG /\ [][NextSG]_vars

-----------------------------------------------------------------------------
(* check_breakout on its own: a bar with any close of a span around the    *)
(* range, against a range                                                  *)

MaxClose == 56

ClosesChecked == (0 - 6)..MaxClose

\* the range 1.1000-1.1050 of the scenarios, and the range 20..40 of the
\* simulation's bars
RangesChecked ==
    {[high |-> 50, low |-> 0, timestamp |-> ASIAN_SESSION_END],
     [high |-> 40, low |-> 20, timestamp |-> ASIAN_SESSION_END]}

InitCB ==
    /\ cfg = DefaultConfig
    /\ \E close \in ClosesChecked :
           bars = <<Bar(LONDON_OPEN, Shape(close - 5, close, close + 5))>>
    /\ current_range \in {Some(r) : r \in RangesChecked}
    /\ pc = "check_breakout"
    /\ current_equity = InitialCapital
    /\ positions = <<>>
    /\ open_positions = <<>>
    /\ closed_trades = <<>>
    /\ daily_pnl = <<>>
    /\ last_signal_date = None
    /\ equity_curve = <<>>
    /\ dates = <<>>
    /\ results = None
    /\ signal_log = <<>>
    /\ calls = 0
    /\ optimizer = None

CheckBreakout ==
    /\ pc = "check_breakout"
    /\ results' = Some(check_breakout(bars[1], Get(current_range)))
    /\ pc' = "returned"
    /\ UNCHANGED <<cfg, optimizer, bars, rmVars, sgVars, equity_curve, dates, signal_log, calls>>

NextCB == CheckBreakout

SpecCB == InitCB /\ [][NextCB]_vars

-----------------------------------------------------------------------------
(* calculate_position_size on its own: a manager with some equity is asked *)
(* for the size of an entry and a stop, and then to open that order        *)

MaxEntry == 30

EntriesSized == 0..MaxEntry

StopsSized == {0, 20}

\* equities of $0, $100, $1,000 and $20,000, in cents
EquitiesSized == {0, 10000, 100000, 2000000}

RiskPercents == {RISK_PER_TRADE_PERCENT, 2}

InitSize ==
    /\ cfg = DefaultConfig
    /\ bars = <<>>
    /\ pc = "size"
    /\ current_equity \in EquitiesSized
    /\ positions = <<>>
    /\ open_positions = <<>>
    /\ closed_trades = <<>>
    /\ daily_pnl = <<>>
    /\ current_range = None
    /\ last_signal_date = None
    /\ equity_curve = <<>>
    /\ dates = <<>>
    /\ \E entry_price \in EntriesSized, stop_loss \in StopsSized,
          risk_percent \in RiskPercents :
           results = Some([call |-> "calculate_position_size",
                           entry_price |-> entry_price,
                           stop_loss |-> stop_loss,
                           risk_percent |-> risk_percent,
                           ret |-> None,
                           opened |-> None])
    /\ signal_log = <<>>
    /\ calls = 0
    /\ optimizer = None

CalculatePositionSize ==
    /\ pc = "size"
    /\ results' = Some([Get(results) EXCEPT
                           !.ret = Some(calculate_position_size(
                                            RM, Get(results).entry_price,
                                            Get(results).stop_loss,
                                            Get(results).risk_percent))])
    /\ pc' = "sized"
    /\ UNCHANGED <<cfg, optimizer, bars, rmVars, sgVars, equity_curve, dates, signal_log, calls>>

\* open_position without a size: it sizes the order itself, with the
\* configured risk percentage
OpenAutoSized ==
    /\ pc = "sized"
    /\ Get(results).risk_percent = cfg.RISK_PER_TRADE_PERCENT
    /\ LET entry_price == Get(results).entry_price
           stop_loss == Get(results).stop_loss
           side == IF entry_price >= stop_loss THEN "LONG" ELSE "SHORT"
           o == open_position(RM, Symbol, side, entry_price, stop_loss,
                              entry_price + cfg.RISK_REWARD_RATIO * (entry_price - stop_loss),
                              LONDON_OPEN, None)
       IN  /\ SetRM(o.rm)
           /\ results' = Some([Get(results) EXCEPT !.opened = Some(o)])
    /\ pc' = "opened"
    /\ UNCHANGED <<cfg, optimizer, bars, sgVars, equity_curve, dates, signal_log, calls>>

NextSize ==
    \/ CalculatePositionSize
    \/ OpenAutoSized

SpecSize == InitSize /\ [][NextSize]_vars

-----------------------------------------------------------------------------
(* optimize.py: StrategyOptimizer.optimize, a grid search that sets the    *)
(* config to each parameter combination in turn and runs the simulation    *)
(* on the same frame                                                       *)

\* LondonBreakoutStrategy(symbol)
NewStrategy == [current_range |-> None, last_signal_date |-> None]

\* BacktestEngine(symbol, initial_capital)
NewEngine ==
    [rm |-> NewRiskManager(InitialCapital), sg |-> NewStrategy,
     equity_curve |-> <<>>, dates |-> <<>>, raised |-> FALSE]

\* BacktestEngine._process_bar on the k-th bar of df, as one function of the
\* engine
process_bar(engine, df, k) ==
    LET bar == df[k]
        recorded == [engine EXCEPT
                        !.equity_curve = Append(@, engine.rm.current_equity),
                        !.dates = Append(@, bar.t)]
        rm1 == CheckExits(engine.rm, engine.rm.open_positions, bar, bar.t)
        g == generate_signal(engine.sg, df, bar.t)
        o == execute_signal(rm1, Get(g.ret), bar.t)
    IN  IF ~NoPositionOpen(rm1) THEN [recorded EXCEPT !.rm = rm1]
        ELSE IF IsNone(g.ret) THEN [recorded EXCEPT !.rm = rm1, !.sg = g.sg]
        ELSE [recorded EXCEPT !.rm = o.rm, !.sg = g.sg, !.raised = o.raised]

RECURSIVE run_loop(_, _, _)
\* run(): for current_time, bar in df.iterrows(); the engine after a bar is
\* computed once, then handed to the rest of the loop
run_loop(engine, df, k) ==
    IF k > Len(df) \/ engine.raised THEN engine
    ELSE CHOOSE done \in {run_loop(next, df, k + 1) :
                              next \in {process_bar(engine, df, k)}} : TRUE

\* BacktestEngine.run(df) of a new engine: the exception it raises, or the
\* results dict it returns
run(df) ==
    LET after_loop(engine) ==
            LET rm == CloseAll(engine.rm, engine.rm.open_positions,
                               df[Len(df)].close, df[Len(df)].t)
                res == generate_results(rm, engine.equity_curve, engine.dates, df)
            IN  IF engine.raised THEN [raised |-> Some("ZeroDivisionError"), ret |-> None]
                ELSE IF print_results_raises(res) THEN [raised |-> Some("KeyError"), ret |-> None]
                ELSE [raised |-> None, ret |-> Some(res)]
    IN  IF df = <<>> THEN [raised |-> Some("ValueError"), ret |-> None]
        ELSE CHOOSE r \in {after_loop(engine) : engine \in {run_loop(NewEngine, df, 1)}} : TRUE

\* dict(zip(param_names, params)) with one more name
WithParam(param_dict, name, value) ==
    [n \in DOMAIN param_dict \cup {name} |-> IF n = name THEN value ELSE param_dict[n]]

RECURSIVE WithEachValue(_, _, _)
WithEachValue(name, values, rest) ==
    IF values = <<>> THEN <<>>
    ELSE [k \in 1..Len(rest) |-> WithParam(rest[k], name, Head(values))]
             \o WithEachValue(name, Tail(values), rest)

RECURSIVE product(_)
\* itertools.product(*param_values), each combination as its param_dict; the
\* grid is the sequence of the dict's <<name, values>> items
product(param_grid) ==
    IF param_grid = <<>> THEN << <<>> >>
    ELSE WithEachValue(Head(param_grid)[1], Head(param_grid)[2],
                       product(Tail(param_grid)))

\* _save_config saving nothing
save_config_nothing(param_names) == [n \in {} |-> 0]

\* StrategyOptimizer._save_config
save_config(param_names) == [n \in param_names |-> cfg[n]]

\* StrategyOptimizer._update_config and _restore_config: setattr per item
update_config(params) ==
    [n \in DOMAIN cfg |-> IF n \in DOMAIN params THEN params[n] ELSE cfg[n]]

\* the row optimize() stores for a combination
result_row(param_dict, res) ==
    [params |-> param_dict,
     total_trades |-> res.total_trades,
     win_rate |-> res.win_rate,
     profit_factor |-> res.profit_factor,
     return_percent |-> res.return_percent,
     max_drawdown |-> res.max_drawdown,
     sharpe_ratio |-> res.sharpe_ratio,
     sortino_ratio |-> res.sortino_ratio]

\* results_df.sort_values("return_percent", ascending=False): the orders of
\* the rows the sort may deliver (rows of equal return in any order); the
\* returns are fractions of the one initial capital
sort_values(rows) ==
    {sorted \in [1..Len(rows) -> {rows[k] : k \in 1..Len(rows)}] :
        /\ \A j, k \in 1..Len(rows) : j # k => sorted[j] # sorted[k]
        /\ \A k \in 1..(Len(rows) - 1) :
               sorted[k].return_percent.num >= sorted[k + 1].return_percent.num}

MaxFrameBars == 3

\* the bars of a frame are at 03:00, 08:00, 10:00, 15:30 and 16:30 of day 0
FrameTimes == <<180, 480, 600, 930, 990>>

\* the frames the optimizer is given: no bar, or up to MaxFrameBars bars
Frames ==
    {<<>>} \cup
    UNION {{[k \in 1..n |-> Bar(FrameTimes[k], shapes[k])] : shapes \in [1..n -> Shapes]} :
              n \in 1..MaxFrameBars}

\* the grids: one whose combinations mostly cannot trade (a minimum range
\* above the session's, a reward ratio below MIN_RISK_REWARD), one whose
\* combinations all can
ParamGrids ==
    {<< <<"MIN_RANGE_PIPS", <<MIN_RANGE_PIPS, 25>> >>,
        <<"RISK_REWARD_RATIO", <<1, RISK_REWARD_RATIO>> >> >>,
     << <<"BREAKOUT_BUFFER_PIPS", <<BREAKOUT_BUFFER_PIPS, 12>> >> >>}

InitOpt ==
    /\ cfg = DefaultConfig
    /\ bars \in Frames
    /\ pc = "optimize"
    /\ current_equity = InitialCapital
    /\ positions = <<>>
    /\ open_positions = <<>>
    /\ closed_trades = <<>>
    /\ daily_pnl = <<>>
    /\ current_range = None
    /\ last_signal_date = None
    /\ equity_curve = <<>>
    /\ dates = <<>>
    /\ results = None
    /\ signal_log = <<>>
    /\ calls = 0
    /\ \E param_grid \in ParamGrids :
           optimizer = Some([param_combinations |-> product(param_grid),
                             i |-> 0,
                             results |-> <<>>,
                             errors |-> <<>>,
                             original_config |-> None])

Optimizer == Get(optimizer)

\* the loop of optimize() takes the next combination: "Temporarily update
\* config"
UpdateConfig ==
    /\ pc = "optimize"
    /\ Optimizer.i < Len(Optimizer.param_combinations)
    /\ LET param_dict == Optimizer.param_combinations[Optimizer.i + 1]
       IN  /\ optimizer' = Some([Optimizer EXCEPT
                                    !.i = @ + 1,
                                    !.original_config =
                                        Some(save_config(DOMAIN param_dict))])
           /\ cfg' = update_config(param_dict)
    /\ pc' = "try"
    /\ UNCHANGED <<bars, rmVars, sgVars, equity_curve, dates, results, signal_log, calls>>

\* the try block of optimize(): the run of a new engine, its row appended to
\* self.results, or its exception printed and the combination skipped; the
\* config is restored either way
RunCombination ==
    /\ pc = "try"
    /\ LET param_dict == Optimizer.param_combinations[Optimizer.i]
           r == run(bars)
       IN  optimizer' =
               Some(IF IsNone(r.raised)
                    THEN [Optimizer EXCEPT
                             !.results = Append(@, result_row(param_dict, Get(r.ret))),
                             !.original_config = None]
                    ELSE [Optimizer EXCEPT
                             !.errors = Append(@, <<param_dict, Get(r.raised)>>),
                             !.original_config = None])
    /\ cfg' = update_config(Get(Optimizer.original_config))
    /\ pc' = "optimize"
    /\ UNCHANGED <<bars, rmVars, sgVars, equity_curve, dates, results, signal_log, calls>>

\* after the loop: pd.DataFrame(self.results).sort_values(metric); the frame
\* of an empty list has no column, and sort_values raises KeyError
SortAndReturn ==
    /\ pc = "optimize"
    /\ Optimizer.i = Len(Optimizer.param_combinations)
    /\ IF Optimizer.results = <<>>
       THEN pc' = "raised" /\ UNCHANGED results
       ELSE /\ \E sorted \in sort_values(Optimizer.results) : results' = Some(sorted)
            /\ pc' = "returned"
    /\ UNCHANGED <<cfg, optimizer, bars, rmVars, sgVars, equity_curve, dates,
                   signal_log, calls>>

NextOpt ==
    \/ UpdateConfig
    \/ RunCombination
    \/ SortAndReturn

SpecOpt == InitOpt /\ [][NextOpt]_vars

-----------------------------------------------------------------------------
(* generate_signal under other configurations: the frame is given whole,  *)
(* and the strategy is asked about its bars in any order                   *)

\* a session bar, a bar closing far above the range and a bar closing just
\* above it
GateShapes == {Shape(20, 30, 40), Shape(70, 85, 90), Shape(-50, 50, 110)}

\* frames of one to four bars, at 03:00, 08:00, 10:00 and 15:30 of day 0
GateFrames ==
    UNION {{[k \in 1..n |-> Bar(FrameTimes[k], shapes[k])] : shapes \in [1..n -> GateShapes]} :
              n \in 1..(Len(FrameTimes) - 1)}

\* an average over two bars, so that a frame of three bars has a trend
ShortEma == [DefaultConfig EXCEPT !.TREND_EMA_PERIOD = 2, !.TRADING_WINDOW_HOURS = 8]

\* trading windows of no length, up to 16:00 and up to midnight; a trend
\* filter that acts, one switched off by either flag; a reward ratio below
\* MIN_RISK_REWARD
GateConfigs ==
    {DefaultConfig,
     [DefaultConfig EXCEPT !.TRADING_WINDOW_HOURS = 0],
     [DefaultConfig EXCEPT !.TRADING_WINDOW_HOURS = 8],
     [DefaultConfig EXCEPT !.TRADING_WINDOW_HOURS = 16],
     ShortEma,
     [ShortEma EXCEPT !.USE_TREND_FILTER = FALSE],
     [ShortEma EXCEPT !.TRADE_WITH_TREND_ONLY = FALSE],
     [DefaultConfig EXCEPT !.RISK_REWARD_RATIO = 1, !.TRADING_WINDOW_HOURS = 8]}

InitGate ==
    /\ cfg \in GateConfigs
    /\ bars \in GateFrames
    /\ pc = "strategy"
    /\ current_equity = InitialCapital
    /\ positions = <<>>
    /\ open_positions = <<>>
    /\ closed_trades = <<>>
    /\ daily_pnl = <<>>
    /\ current_range = None
    /\ last_signal_date = None
    /\ equity_curve = <<>>
    /\ dates = <<>>
    /\ results = None
    /\ signal_log = <<>>
    /\ calls = 0
    /\ optimizer = None

NextGate == \E k \in 1..Len(bars) : GenerateSignal(bars[k].t)

SpecGate == InitGate /\ [][NextGate]_vars

-----------------------------------------------------------------------------
(* the statistics of a trade log on their own: a manager that has closed   *)
(* some trades is asked for its profit factor and for its streaks          *)

MaxLog == 4

\* a commission of $10 per lot, so that a trade of 0.01 lots that wins one
\* pip nets exactly 0
StatsConfig == [DefaultConfig EXCEPT !.COMMISSION_PER_LOT = 10]

\* a Long of 0.01 lots from 50 closed at its stop (net -3.10), one pip above
\* its entry (net 0.00) and at its target (net +5.90)
StatTrades ==
    {MakeTrade(NewPosition(Symbol, "LONG", 50, 20, 110, 480, 1), exit_price, 600, "MANUAL") :
         exit_price \in {20, 51, 110}}

TradeLogs == UNION {[1..n -> StatTrades] : n \in 0..MaxLog}

RECURSIVE BookAll(_, _)
\* the manager after it has closed the trades
BookAll(rm, trades) ==
    IF trades = <<>> THEN rm
    ELSE BookAll([BookTrade(rm, Head(trades)) EXCEPT
                     !.closed_trades = Append(@, Head(trades))],
                 Tail(trades))

InitStats ==
    /\ cfg = StatsConfig
    /\ bars = <<>>
    /\ pc = "stats"
    /\ \E trades \in TradeLogs :
           LET rm == BookAll(NewRiskManager(InitialCapital), trades)
           IN  /\ current_equity = rm.current_equity
               /\ closed_trades = rm.closed_trades
               /\ daily_pnl = rm.daily_pnl
    /\ positions = <<>>
    /\ open_positions = <<>>
    /\ current_range = None
    /\ last_signal_date = None
    /\ equity_curve = <<>>
    /\ dates = <<>>
    /\ results = None
    /\ signal_log = <<>>
    /\ calls = 0
    /\ optimizer = None

\* rm.profit_factor
ProfitFactor ==
    /\ pc = "stats"
    /\ results' = Some([call |-> "profit_factor", ret |-> profit_factor(RM)])
    /\ pc' = "returned"
    /\ UNCHANGED <<cfg, optimizer, bars, rmVars, sgVars, equity_curve, dates, signal_log, calls>>

\* engine._calculate_consecutive_trades()
ConsecutiveTrades ==
    /\ pc = "stats"
    /\ results' = Some([call |-> "consecutive_trades",
                        ret |-> calculate_consecutive_trades(RM)])
    /\ pc' = "returned"
    /\ UNCHANGED <<cfg, optimizer, bars, rmVars, sgVars, equity_curve, dates, signal_log, calls>>

NextStats == ProfitFactor \/ ConsecutiveTrades

SpecStats == InitStats /\ [][NextStats]_vars

-----------------------------------------------------------------------------
(* properties of a simulation run *)

\* the tracked symbol's open positions
OpenForSymbol == {k \in 1..Len(open_positions) : positions[open_positions[k]].symbol = Symbol}

\* C2: in every state of a simulation run, between the steps of a bar as
\* well as after it, at most one Position is open for the tracked symbol
SinglePositionInvariant == Cardinality(OpenForSymbol) <= 1

\* C2's case: a position opened on an earlier bar is still open after a bar
\* on which the strategy, had it been asked, would have given a signal, and
\* the risk manager (MAX_OPEN_POSITIONS = 3) would have taken it
SecondEntryHeldBack ==
    /\ pc = "loop"
    /\ Cardinality(OpenForSymbol) = 1
    /\ positions[open_positions[1]].entry_time < LastTime
    /\ LET g == generate_signal(SG, bars, LastTime)
       IN  /\ ~IsNone(g.ret)
           /\ ~IsNone(execute_signal(RM, Get(g.ret), LastTime).ret)

\* both the stop-loss and the take-profit condition hold on the bar
BothHit(position, bar) ==
    IF position.side = "LONG"
    THEN bar.low <= position.stop_loss /\ bar.high >= position.take_profit
    ELSE bar.high >= position.stop_loss /\ bar.low <= position.take_profit

\* the trades appended by the step being taken
NewTrades == {closed_trades'[k] : k \in (Len(closed_trades) + 1)..Len(closed_trades')}

\* C4: when the exits of a bar are processed, an open position (Long or
\* Short) for which the bar satisfies both the stop-loss and the take-profit
\* condition is closed on that bar, at its stop price, with reason "SL"
StopPriorityTieBreak ==
    [][pc = "exits" =>
          \A k \in 1..Len(open_positions) :
              LET ref == open_positions[k]
                  position == positions[ref]
              IN  BothHit(position, bars[Len(bars)]) =>
                      /\ \A m \in 1..Len(open_positions') : open_positions'[m] # ref
                      /\ \E trade \in NewTrades :
                            /\ trade.entry_time = position.entry_time
                            /\ trade.side = position.side
                            /\ trade.exit_time = LastTime
                            /\ trade.exit_price = position.stop_loss
                            /\ trade.exit_reason = "SL"
                      /\ \A trade \in NewTrades : trade.exit_reason # "TP"]_vars

\* C4's case: the bar just processed closed a position whose stop and target
\* both lie within the bar; the trade carries the stop price and "SL"
StopAndTargetInOneBar ==
    /\ pc = "signal"
    /\ closed_trades # <<>>
    /\ LET trade == closed_trades[Len(closed_trades)]
           bar == bars[Len(bars)]
       IN  /\ trade.exit_time = LastTime
           /\ bar.low <= trade.stop_loss /\ trade.stop_loss <= bar.high
           /\ bar.low <= trade.take_profit /\ trade.take_profit <= bar.high
           /\ trade.exit_reason = "SL"
           /\ trade.exit_price = trade.stop_loss

\* run() has ended over a non-empty bar series without a single closed trade
ZeroTradeRunEnded ==
    /\ pc \in {"done", "raised"}
    /\ bars # <<>>
    /\ closed_trades = <<>>

\* C5: a run over a non-empty bar series that closes no trade completes
\* without raising, and its report shows win rate 0, profit factor 0, maximum
\* drawdown 0, Sharpe 0 and Sortino 0
ZeroTradeRunReports ==
    ZeroTradeRunEnded =>
        /\ pc = "done"
        /\ ~IsNone(results)
        /\ Get(results).win_rate.num = 0
        /\ Get(results).profit_factor.num = 0
        /\ Get(results).max_drawdown.num = 0
        /\ Get(results).sharpe_ratio.zero
        /\ Get(results).sortino_ratio.zero

\* C6: in the results of every run, the win rate lies in [0, 100], the
\* maximum drawdown is at most 0, and the profit factor is at least 0 or is
\* +infinity
RatioBounds ==
    ~IsNone(results) =>
        LET r == Get(results)
        IN  /\ r.win_rate.den > 0
            /\ 0 <= r.win_rate.num
            /\ r.win_rate.num <= 100 * r.win_rate.den
            /\ r.max_drawdown.den > 0
            /\ r.max_drawdown.num <= 0
            /\ \/ IsInf(r.profit_factor)
               \/ r.profit_factor.den > 0 /\ r.profit_factor.num >= 0

\* C6's case: results over a trade log with a loss that the equity curve
\* shows, so that the drawdown is not 0 and the profit factor is a quotient
ResultsWithDrawdown ==
    /\ ~IsNone(results)
    /\ Get(results).total_trades >= 2
    /\ Get(results).max_drawdown.num < 0
    /\ ~IsInf(Get(results).profit_factor)

\* the trades closed on bars strictly before time t
ClosedBefore(t) == SelectSeq(closed_trades, LAMBDA trade : trade.exit_time < t)

\* C8: the equity point recorded for the bar at time T is the initial
\* capital plus the net P&L of the trades closed on bars strictly before T;
\* an exit within bar T is not in T's own point
EquityCurveOneBarLag ==
    /\ Len(equity_curve) = Len(dates)
    /\ \A k \in 1..Len(equity_curve) :
          equity_curve[k] = InitialCapital + SumNetPnl(ClosedBefore(dates[k]))

\* C8's case: a trade with a non-zero net P&L was closed by an exit within
\* a bar that is not the last one, so its bar's point leaves it out and the
\* next point has it
ExitBetweenTwoPoints ==
    \E k \in 1..(Len(dates) - 1) :
        \E m \in 1..Len(closed_trades) :
            /\ closed_trades[m].exit_time = dates[k]
            /\ net_pnl(closed_trades[m]) # 0
            /\ equity_curve[k + 1] # equity_curve[k]

\* C9: when run() leaves its loop, every position still open is closed at
\* the last bar's close, at the last bar's timestamp, with reason "END", and
\* from then on no position is open
EndOfDataClosesAll ==
    /\ [](pc \in {"results", "done"} \/ ~IsNone(results) => open_positions = <<>>)
    /\ [][pc = "loop" /\ pc' = "results" =>
             /\ Len(closed_trades') = Len(closed_trades) + Len(open_positions)
             /\ SubSeq(closed_trades', 1, Len(closed_trades)) = closed_trades
             /\ \A k \in 1..Len(open_positions) :
                   LET position == positions[open_positions[k]]
                       trade == closed_trades'[Len(closed_trades) + k]
                   IN  /\ trade.entry_time = position.entry_time
                       /\ trade.side = position.side
                       /\ trade.exit_price = bars[Len(bars)].close
                       /\ trade.exit_time = bars[Len(bars)].t
                       /\ trade.exit_reason = "END"]_vars

\* C9's case: the run ended with a position open, which the end of data
\* closed at the last close
ClosedAtEndOfData ==
    /\ pc = "results"
    /\ open_positions = <<>>
    /\ closed_trades # <<>>
    /\ LET trade == closed_trades[Len(closed_trades)]
       IN  /\ trade.exit_reason = "END"
           /\ trade.exit_price = bars[Len(bars)].close
           /\ trade.exit_time = LastTime
           /\ trade.exit_price # trade.entry_price

-----------------------------------------------------------------------------
(* properties of the RiskManager under any sequence of calls *)

\* C1: after any sequence of open_position / close_position /
\* update_trailing_stop calls, and at every point of a simulation, the equity
\* is the initial capital plus the net P&L of the trades in the closed-trade
\* log
EquityConservation == current_equity = InitialCapital + SumNetPnl(closed_trades)

\* C10: no step changes a Long position's stop_loss downwards or a Short
\* position's upwards, and with USE_TRAILING_STOP off no step changes a stop
TrailingStopNeverLoosens ==
    [][\A ref \in 1..Len(positions) :
           /\ positions[ref].side = "LONG" =>
                  positions'[ref].stop_loss >= positions[ref].stop_loss
           /\ positions[ref].side = "SHORT" =>
                  positions'[ref].stop_loss <= positions[ref].stop_loss
           /\ ~cfg.USE_TRAILING_STOP =>
                  positions'[ref].stop_loss = positions[ref].stop_loss]_vars

\* C10's case: update_trailing_stop was called on an open position whose
\* stop an earlier call had moved, at a price in enough profit to be active
\* but whose candidate stop is looser than the current one; the call
\* returned False
LooserCandidateRefused ==
    /\ ~IsNone(results)
    /\ Get(results).call = "update_trailing_stop"
    /\ Get(results).ret = FALSE
    /\ cfg.USE_TRAILING_STOP
    /\ LET position == positions[Get(results).ref]
           price == Get(results).price
       IN  /\ \E k \in 1..Len(open_positions) : open_positions[k] = Get(results).ref
           /\ position.side = "LONG"
           /\ position.stop_loss > 20
           /\ calculate_pnl(position, price)
                  >= risk_pips(position) * cfg.TRAILING_STOP_ACTIVATION_RR
           /\ price - cfg.TRAILING_STOP_DISTANCE_PIPS < position.stop_loss

-----------------------------------------------------------------------------
(* properties of the strategy under any sequence of calls *)

\* call i of the log returned a signal, and the later call j was for a
\* timestamp of the same calendar date
SignalThenSameDate(i, j) ==
    /\ i < j
    /\ ~IsNone(signal_log[i][2])
    /\ DateOf(signal_log[j][1]) = DateOf(signal_log[i][1])

-----------------------------------------------------------------------------
(* properties of run() on an empty frame *)

\* C11: when run() is rejected because the frame is empty after the date
\* filter, the step changes neither the equity, the open positions, the
\* trade log, the day buckets, the equity curve and its dates, nor the
\* strategy's range and signal date; nothing of the simulation has run
EmptyRunMutatesNothing ==
    /\ [][pc = "run" /\ pc' = "raised" =>
             /\ UNCHANGED <<current_equity, positions, open_positions,
                            closed_trades, daily_pnl>>
             /\ UNCHANGED <<equity_curve, dates>>
             /\ UNCHANGED <<current_range, last_signal_date>>
             /\ UNCHANGED results]_vars
    /\ [](pc = "raised" /\ bars = <<>> =>
             /\ current_equity = InitialCapital
             /\ open_positions = <<>> /\ closed_trades = <<>>
             /\ equity_curve = <<>> /\ dates = <<>>
             /\ IsNone(current_range) /\ IsNone(last_signal_date))

\* C11's case: run() was rejected for an empty frame
EmptyRunRejected ==
    /\ pc = "raised"
    /\ bars = <<>>
    /\ \E df \in GivenFrames \ {<<>>}, start_date \in DateArgs, end_date \in DateArgs :
           FilterDates(df, start_date, end_date) = <<>>

-----------------------------------------------------------------------------
(* properties of the signals *)

\* the bars of the frame in the session window of t's calendar date
SessionBars(t) ==
    {k \in 1..Len(bars) :
        /\ bars[k].t >= DateOf(t) * MinutesPerDay + cfg.ASIAN_SESSION_START
        /\ bars[k].t < DateOf(t) * MinutesPerDay + cfg.ASIAN_SESSION_END}

SessionHigh(t) == SeqMax({bars[k].high : k \in SessionBars(t)})
SessionLow(t) == SeqMin({bars[k].low : k \in SessionBars(t)})

\* the signals generate_signal has returned
Emitted == {Get(signal_log[k][2]) : k \in {m \in 1..Len(signal_log) : ~IsNone(signal_log[m][2])}}

\* C12: every signal emitted has the close of the bar at its timestamp as
\* entry; a Long one has its stop at the session low and its target at
\* entry + (entry - stop) * RISK_REWARD_RATIO, a Short one its stop at the
\* session high and its target at entry - (stop - entry) * RISK_REWARD_RATIO;
\* with the range 1.1000-1.1050 (0..50), a close of 1.1053 (53) and ratio 2
\* the levels are 1.1000 (0) and 1.1159 (159)
SignalLevels ==
    /\ \A signal \in Emitted :
          /\ signal.signal_type \in {"LONG", "SHORT"}
          /\ \E k \in 1..Len(bars) :
                bars[k].t = signal.timestamp /\ signal.entry_price = bars[k].close
          /\ signal.signal_type = "LONG" =>
                /\ signal.stop_loss = SessionLow(signal.timestamp)
                /\ signal.take_profit = signal.entry_price
                       + (signal.entry_price - signal.stop_loss) * cfg.RISK_REWARD_RATIO
          /\ signal.signal_type = "SHORT" =>
                /\ signal.stop_loss = SessionHigh(signal.timestamp)
                /\ signal.take_profit = signal.entry_price
                       - (signal.stop_loss - signal.entry_price) * cfg.RISK_REWARD_RATIO
    /\ cfg.RISK_REWARD_RATIO = 2 =>
           calculate_position_levels("LONG", 53, [high |-> 50, low |-> 0, timestamp |-> 420])
               = <<0, 159>>

\* C12's case: a Long and a Short signal have been emitted
LongAndShortEmitted ==
    /\ \E signal \in Emitted : signal.signal_type = "LONG" /\ signal.stop_loss = 20
    /\ \E signal \in Emitted : signal.signal_type = "SHORT" /\ signal.stop_loss = 40

\* C13: check_breakout returns Long exactly when the close is above the
\* range high plus the buffer, Short exactly when it is below the range low
\* minus the buffer, and no breakout otherwise, so none for a close equal to
\* high + buffer or to low - buffer; a Short signal's stop is the range high
\* (close 1.0997 against 1.1000-1.1050: Short, stop 1.1050)
BreakoutIsStrict ==
    pc = "returned" =>
        LET close == bars[1].close
            range == Get(current_range)
            above == close > range.high + cfg.BREAKOUT_BUFFER_PIPS
            below == close < range.low - cfg.BREAKOUT_BUFFER_PIPS
        IN  /\ Get(results) \in {"LONG", "SHORT", "NONE"}
            /\ Get(results) = "LONG" <=> above
            /\ Get(results) = "SHORT" <=> below
            /\ Get(results) = "NONE" <=> ~above /\ ~below
            /\ close \in {range.high + cfg.BREAKOUT_BUFFER_PIPS,
                          range.low - cfg.BREAKOUT_BUFFER_PIPS} => Get(results) = "NONE"
            /\ close = -3 /\ range.low = 0 /\ range.high = 50 =>
                   /\ Get(results) = "SHORT"
                   /\ calculate_position_levels(Get(results), close, range)[1] = 50

\* C13's case: the close is exactly the range low minus the buffer, and
\* check_breakout has returned no breakout
CloseOnTheBuffer ==
    /\ pc = "returned"
    /\ bars[1].close = Get(current_range).low - cfg.BREAKOUT_BUFFER_PIPS
    /\ Get(results) = "NONE"

\* the calendar date of t has no bar in its session window, or a session
\* range whose size is outside [MIN_RANGE_PIPS, MAX_RANGE_PIPS]
DayRangeInvalid(t) ==
    \/ SessionBars(t) = {}
    \/ SessionHigh(t) - SessionLow(t) < cfg.MIN_RANGE_PIPS
    \/ SessionHigh(t) - SessionLow(t) > cfg.MAX_RANGE_PIPS

\* C14: on a day without session bars or with a session range outside the
\* band, identify_asian_range returns None, generate_signal has returned
\* None for every bar of the day, and no position was opened on the day
InvalidRangeNeverTrades ==
    /\ bars # <<>> /\ DayRangeInvalid(LastTime) =>
           IsNone(identify_asian_range(bars, LastTime))
    /\ \A k \in 1..Len(signal_log) :
           DayRangeInvalid(signal_log[k][1]) => IsNone(signal_log[k][2])
    /\ \A ref \in 1..Len(positions) : ~DayRangeInvalid(positions[ref].entry_time)

\* C14's case: the session range of the day is 10 pips, a bar of the trading
\* window has closed far above it, generate_signal was asked and returned
\* None, and no position is open
BreakoutOfTooSmallRange ==
    /\ pc = "loop"
    /\ open_positions = <<>>
    /\ signal_log # <<>>
    /\ signal_log[Len(signal_log)][1] = LastTime
    /\ IsNone(signal_log[Len(signal_log)][2])
    /\ InTradingWindow(LastTime)
    /\ SessionBars(LastTime) # {}
    /\ SessionHigh(LastTime) - SessionLow(LastTime) = 10
    /\ bars[Len(bars)].close > SessionHigh(LastTime) + 30

-----------------------------------------------------------------------------
(* properties of the risk limits *)

\* the step is a call of open_position
OpenCalled ==
    /\ calls' = calls + 1
    /\ Get(results').call = "open_position"

\* the Position a successful open_position returned
Opened ==
    positions'[Get(Get(results').ret)]

\* C15: open_position does not raise; when it returns None the equity, the
\* open positions, the trade log and the day buckets are as they were; and it
\* returns a Position only if the size is not 0 and can_open_position accepts
\* the position's risk on its entry date, so every refusal is a None
RejectionIsAValue ==
    [][OpenCalled =>
           /\ ~Get(results').raised
           /\ IsNone(Get(results').ret) =>
                  UNCHANGED <<current_equity, positions, open_positions,
                              closed_trades, daily_pnl>>
           /\ ~IsNone(Get(results').ret) =>
                  /\ Opened.size_lots # 0
                  /\ can_open_position(RM, current_risk_amount(Opened),
                                       DateOf(Opened.entry_time)) = "OK"]_vars

\* C15's case: with a position open and a trade in the log, open_position
\* was refused for the exposure and returned None
RefusedForExposure ==
    /\ ~IsNone(results)
    /\ Get(results).call = "open_position"
    /\ IsNone(Get(results).ret)
    /\ ~Get(results).raised
    /\ Get(results).printed = Some("Total risk exposure too high")
    /\ open_positions # <<>>
    /\ closed_trades # <<>>

\* C15, in the simulation: when open_position refuses the signal of a bar,
\* the risk manager is unchanged and the run goes on to the next bar
RejectedSignalContinues ==
    [][/\ pc = "signal"
       /\ NoPositionOpen(RM)
       /\ ~IsNone(generate_signal(SG, bars, LastTime).ret)
       /\ IsNone(execute_signal(RM, Get(generate_signal(SG, bars, LastTime).ret),
                                LastTime).ret)
       => /\ pc' = "loop"
          /\ UNCHANGED <<current_equity, positions, open_positions,
                         closed_trades, daily_pnl>>]_vars

\* the bucket of the date, as a percentage of the current equity, is at or
\* below minus MAX_DAILY_LOSS_PERCENT
LossLimitReached(d) ==
    /\ d \in DOMAIN daily_pnl
    /\ current_equity # 0
    /\ IF current_equity > 0
       THEN daily_pnl[d] * 100 <= (0 - cfg.MAX_DAILY_LOSS_PERCENT) * current_equity
       ELSE daily_pnl[d] * 100 >= (0 - cfg.MAX_DAILY_LOSS_PERCENT) * current_equity

\* the risk amounts the orders of the harness come with
RisksAsked ==
    {Abs(order.entry_price - order.stop_loss) * size * 10 :
        order \in Orders, size \in {0, 1, 3, 5}}

\* the last call was an open_position that returned a Position
LastOpened ==
    /\ ~IsNone(results)
    /\ Get(results).call = "open_position"
    /\ ~IsNone(Get(results).ret)

\* C16: on a date whose bucket has reached the loss limit can_open_position
\* refuses every risk amount, and a Position that open_position has just
\* returned was not entered on such a date (open_position changes neither
\* the buckets nor the equity)
DailyLossLimit ==
    /\ \A d \in DOMAIN daily_pnl, risk_amount \in RisksAsked :
           LossLimitReached(d) =>
               can_open_position(RM, risk_amount, d) \notin {"OK", "ZeroDivisionError"}
    /\ LastOpened =>
           ~LossLimitReached(DateOf(positions[Get(Get(results).ret)].entry_time))

\* C16's case: with no position open, open_position was refused because the
\* losses realised on the entry date had reached the limit
RefusedForDailyLoss ==
    /\ ~IsNone(results)
    /\ Get(results).call = "open_position"
    /\ IsNone(Get(results).ret)
    /\ Get(results).printed = Some("Daily loss limit reached")
    /\ open_positions = <<>>
    /\ \E d \in DOMAIN daily_pnl : LossLimitReached(d)

\* current_equity x RISK_PER_TRADE_PERCENT % x MAX_OPEN_POSITIONS, times 100
MaxAllowedRisk100 ==
    current_equity * cfg.RISK_PER_TRADE_PERCENT * cfg.MAX_OPEN_POSITIONS

\* the dates open_position is called on
DatesAsked ==
    {DateOf(t) : t \in CallTimes}

\* C17: can_open_position refuses for the exposure exactly when the count
\* check and the daily loss check let the request through and the risk of the
\* open positions plus the candidate's is strictly above equity x
\* RISK_PER_TRADE_PERCENT % x MAX_OPEN_POSITIONS; and right after a
\* successful open_position the risk of the open positions is within that
ExposureCap ==
    /\ \A d \in DatesAsked, risk_amount \in RisksAsked :
           ~(d \in DOMAIN daily_pnl /\ current_equity = 0) =>
               ((can_open_position(RM, risk_amount, d) = "Total risk exposure too high")
                <=> /\ Len(open_positions) < cfg.MAX_OPEN_POSITIONS
                    /\ ~LossLimitReached(d)
                    /\ (open_risk(RM) + risk_amount) * 100 > MaxAllowedRisk100)
    /\ LastOpened => open_risk(RM) * 100 <= MaxAllowedRisk100

\* C17's case: two open positions carry exactly the allowed risk, both were
\* accepted, and the next open_position was refused for the exposure
RefusedAboveTheCap ==
    /\ ~IsNone(results)
    /\ Get(results).call = "open_position"
    /\ IsNone(Get(results).ret)
    /\ Get(results).printed = Some("Total risk exposure too high")
    /\ Len(open_positions) = 2
    /\ open_risk(RM) * 100 = MaxAllowedRisk100

\* C18: no call leaves more than MAX_OPEN_POSITIONS positions open, and an
\* open_position called with MAX_OPEN_POSITIONS positions open returns None
\* and opens nothing
MaxConcurrentPositions ==
    [][/\ Len(open_positions') <= cfg.MAX_OPEN_POSITIONS
       /\ OpenCalled /\ Len(open_positions) >= cfg.MAX_OPEN_POSITIONS =>
              /\ IsNone(Get(results').ret)
              /\ ~Get(results').raised
              /\ open_positions' = open_positions]_vars

\* C18's case: with MAX_OPEN_POSITIONS positions open, whose risk leaves room
\* for another, an open_position was refused for the count
RefusedAtMaximum ==
    /\ ~IsNone(results)
    /\ Get(results).call = "open_position"
    /\ IsNone(Get(results).ret)
    /\ Get(results).printed = Some("Maximum open positions reached")
    /\ Len(open_positions) = cfg.MAX_OPEN_POSITIONS
    /\ \E risk_amount \in RisksAsked :
           /\ risk_amount > 0
           /\ (open_risk(RM) + risk_amount) * 100 <= MaxAllowedRisk100

-----------------------------------------------------------------------------
(* properties of the position size *)

MinOf(S) == CHOOSE x \in S : \A y \in S : x <= y

\* the pips between the entry and the stop that were asked about
RiskPipsAsked ==
    Abs(Get(results).entry_price - Get(results).stop_loss)

\* risk_amount / (risk_pips x pip value), MAX_POSITION_SIZE_LOTS and
\* equity / 100 x POSITION_SIZE_PER_100, each in 1/100000 of a lot and
\* multiplied by 10 x risk_pips, and the smallest of them
RawSize10 == 10 * current_equity * Get(results).risk_percent
MaxSize10 == cfg.MAX_POSITION_SIZE_LOTS * 1000 * 10 * RiskPipsAsked
SimpleSize10 == current_equity * cfg.POSITION_SIZE_PER_100 * RiskPipsAsked
Clamped10 == MinOf({RawSize10, MaxSize10, SimpleSize10})

\* the size that was returned, in hundredths of a lot
SizeReturned == Get(Get(results).ret)

\* C19: calculate_position_size returns 0 for an entry equal to the stop;
\* otherwise a hundredth of a lot nearest to the smallest of risk_amount /
\* (risk_pips x 10), MAX_POSITION_SIZE_LOTS and equity / 100 x
\* POSITION_SIZE_PER_100; never more than MAX_POSITION_SIZE_LOTS; 0 when the
\* raw size is below 0.005 lots; and open_position returns None and opens
\* nothing for an order whose size is 0
PositionSizing ==
    pc \in {"sized", "opened"} =>
        /\ RiskPipsAsked = 0 => SizeReturned = 0
        /\ RiskPipsAsked # 0 =>
               2 * Abs(SizeReturned * 1000 * 10 * RiskPipsAsked - Clamped10)
                   <= 1000 * 10 * RiskPipsAsked
        /\ SizeReturned <= cfg.MAX_POSITION_SIZE_LOTS
        /\ RiskPipsAsked # 0 /\ 2 * RawSize10 < 1000 * 10 * RiskPipsAsked =>
               SizeReturned = 0
        /\ pc = "opened" /\ SizeReturned = 0 =>
               /\ IsNone(Get(Get(results).opened).ret)
               /\ ~Get(Get(results).opened).raised
               /\ open_positions = <<>>

\* C19's case: with a positive equity and a stop away from the entry the raw
\* size was below 0.005 lots, the size returned was 0, and open_position was
\* then asked to open the order
TooSmallToOpen ==
    /\ pc = "opened"
    /\ current_equity > 0
    /\ RiskPipsAsked # 0
    /\ 2 * RawSize10 < 1000 * 10 * RiskPipsAsked
    /\ SizeReturned = 0
    /\ IsNone(Get(Get(results).opened).ret)

-----------------------------------------------------------------------------
(* properties of the time exit *)

\* the bar reaches the position's stop or its target
Triggered(position, bar) ==
    IF position.side = "LONG"
    THEN bar.low <= position.stop_loss \/ bar.high >= position.take_profit
    ELSE bar.high >= position.stop_loss \/ bar.low <= position.take_profit

\* the bar's time is at or after LONDON_CLOSE - EXIT_BEFORE_CLOSE_MINUTES of
\* its own date
AtExitTime ==
    TimeOf(LastTime) >= cfg.LONDON_CLOSE - cfg.EXIT_BEFORE_CLOSE_MINUTES

\* C20: with USE_TIME_EXIT on, the exit step of a bar at or after the exit
\* time of its date closes every position that was open, each with a trade
\* at the bar's time: with reason "TIME" at the bar's close when the bar
\* reached neither the stop nor the target, with "SL" or "TP" otherwise; and
\* with USE_TIME_EXIT off no trade has the reason "TIME"
TimeExit ==
    [][/\ pc = "exits" /\ pc' = "signal" /\ cfg.USE_TIME_EXIT /\ AtExitTime =>
              /\ open_positions' = <<>>
              /\ Len(closed_trades') = Len(closed_trades) + Len(open_positions)
              /\ \A k \in 1..Len(open_positions) :
                     LET position == positions[open_positions[k]]
                         trade == closed_trades'[Len(closed_trades) + k]
                         bar == bars[Len(bars)]
                     IN  /\ trade.entry_time = position.entry_time
                         /\ trade.exit_time = LastTime
                         /\ IF Triggered(position, bar)
                            THEN trade.exit_reason \in {"SL", "TP"}
                            ELSE /\ trade.exit_reason = "TIME"
                                 /\ trade.exit_price = bar.close
       /\ ~cfg.USE_TIME_EXIT =>
              \A k \in 1..Len(closed_trades') :
                  closed_trades'[k].exit_reason # "TIME"]_vars

\* C20's case: the exit step of a bar at exactly the exit time (15:30) has
\* closed a position the bar's prices did not touch, at the bar's close
ClosedAtExitTime ==
    /\ pc = "signal"
    /\ cfg.USE_TIME_EXIT
    /\ TimeOf(LastTime) = cfg.LONDON_CLOSE - cfg.EXIT_BEFORE_CLOSE_MINUTES
    /\ closed_trades # <<>>
    /\ open_positions = <<>>
    /\ LET trade == closed_trades[Len(closed_trades)]
       IN  /\ trade.exit_reason = "TIME"
           /\ trade.exit_time = LastTime
           /\ trade.exit_price = bars[Len(bars)].close
           /\ trade.entry_time < LastTime

-----------------------------------------------------------------------------
(* properties of the optimizer *)

\* the parameter combinations whose row is in rows
ParamsOf(rows) == {rows[k].params : k \in 1..Len(rows)}

\* the combinations whose run raised
FailedParams == {Optimizer.errors[k][1] : k \in 1..Len(Optimizer.errors)}

\* every combination taken so far has either a row or a printed error
EveryCombinationAccounted ==
    /\ Len(Optimizer.results) + Len(Optimizer.errors)
           = Optimizer.i - (IF pc = "try" THEN 1 ELSE 0)
    /\ ParamsOf(Optimizer.results) \cap FailedParams = {}
    /\ pc # "try" => cfg = DefaultConfig

\* C21: a combination whose run raises is recorded and skipped, the loop
\* goes on, and the sweep completes: optimize() does not raise, and what it
\* returns are the rows of exactly the combinations whose run succeeded
SweepCompletes ==
    /\ EveryCombinationAccounted
    /\ pc # "raised"
    /\ pc = "returned" =>
           /\ Optimizer.i = Len(Optimizer.param_combinations)
           /\ ParamsOf(Get(results)) =
                  {Optimizer.param_combinations[k] :
                       k \in 1..Len(Optimizer.param_combinations)} \ FailedParams

-----------------------------------------------------------------------------
(* properties of the exits of a bar *)

StopHit(position, bar) ==
    IF position.side = "LONG"
    THEN bar.low <= position.stop_loss
    ELSE bar.high >= position.stop_loss

TargetHit(position, bar) ==
    IF position.side = "LONG"
    THEN bar.high >= position.take_profit
    ELSE bar.low <= position.take_profit

StillOpen(ref) == \E k \in 1..Len(open_positions') : open_positions'[k] = ref

\* C22: the exit step of a bar gives every open position exactly one of: a
\* close with "SL" at its stop, with "TP" at its target, with "TIME" at the
\* bar's close (in this precedence), or the trailing-stop update from the
\* bar's close; a position that is closed is otherwise left as it was, its
\* stop included, and a position that is not closed gets no trade
ExitPrecedence ==
    [][pc = "exits" /\ pc' = "signal" =>
           \A k \in 1..Len(open_positions) :
               LET ref == open_positions[k]
                   position == positions[ref]
                   bar == bars[Len(bars)]
                   mine == {t \in NewTrades : t.entry_time = position.entry_time}
                   trade == CHOOSE t \in mine : TRUE
               IN  IF \/ StopHit(position, bar)
                      \/ TargetHit(position, bar)
                      \/ cfg.USE_TIME_EXIT /\ AtExitTime
                   THEN /\ ~StillOpen(ref)
                        /\ Cardinality(mine) = 1
                        /\ positions'[ref] = position
                        /\ trade.stop_loss = position.stop_loss
                        /\ trade.exit_time = LastTime
                        /\ <<trade.exit_reason, trade.exit_price>> =
                               IF StopHit(position, bar)
                               THEN <<"SL", position.stop_loss>>
                               ELSE IF TargetHit(position, bar)
                               THEN <<"TP", position.take_profit>>
                               ELSE <<"TIME", bar.close>>
                   ELSE /\ StillOpen(ref)
                        /\ mine = {}
                        /\ positions'[ref] =
                               [position EXCEPT
                                   !.stop_loss = TrailedStop(position, bar.close)]]_vars

\* C22's case: a position was closed by the time exit on a bar whose close
\* was far enough in profit for the trailing stop to move, and its stop is
\* the one it had before the bar
ClosedWithoutTrailing ==
    /\ pc = "signal"
    /\ cfg.USE_TRAILING_STOP
    /\ closed_trades # <<>>
    /\ LET trade == closed_trades[Len(closed_trades)]
       IN  /\ trade.exit_time = LastTime
           /\ trade.exit_reason = "TIME"
           /\ \E ref \in 1..Len(positions) :
                  /\ positions[ref].entry_time = trade.entry_time
                  /\ positions[ref].stop_loss = trade.stop_loss
                  /\ TrailedStop(positions[ref], bars[Len(bars)].close)
                         # positions[ref].stop_loss

-----------------------------------------------------------------------------
(* properties of the trailing stop's activation *)

\* |entry - stop| of the order the position was opened with
InitialRiskPips(position) ==
    LET order == CHOOSE o \in Orders :
                     o.side = position.side /\ o.entry_price = position.entry_price
    IN  Abs(order.entry_price - order.stop_loss)

\* the step is a call of update_trailing_stop
TrailingCalled ==
    /\ calls' = calls + 1
    /\ Get(results').call = "update_trailing_stop"

\* C23: a call of update_trailing_stop changes the position's stop only at a
\* price whose profit in pips is at least TRAILING_STOP_ACTIVATION_RR times
\* the risk of the stop the position was opened with; it returns True
\* exactly when it changed the stop, and changes nothing else
TrailingActivation ==
    [][TrailingCalled =>
           LET ref == Get(results').ref
               position == positions[ref]
               price == Get(results').price
               changed == positions'[ref].stop_loss # position.stop_loss
           IN  /\ changed =>
                      /\ cfg.USE_TRAILING_STOP
                      /\ calculate_pnl(position, price)
                             >= InitialRiskPips(position) * cfg.TRAILING_STOP_ACTIVATION_RR
               /\ Get(results').ret = changed
               /\ positions' = [positions EXCEPT
                                   ![ref].stop_loss = positions'[ref].stop_loss]
               /\ UNCHANGED <<current_equity, open_positions, closed_trades,
                              daily_pnl>>]_vars

\* C23's case: the stop of an open position has been moved to within its
\* initial risk of the entry, and update_trailing_stop was called at a price
\* whose profit reaches the risk of the moved stop but not that of the
\* initial stop; the stop was left alone
BelowInitialActivation ==
    /\ ~IsNone(results)
    /\ Get(results).call = "update_trailing_stop"
    /\ Get(results).ret = FALSE
    /\ cfg.USE_TRAILING_STOP
    /\ LET position == positions[Get(results).ref]
           price == Get(results).price
       IN  /\ \E k \in 1..Len(open_positions) : open_positions[k] = Get(results).ref
           /\ risk_pips(position) < InitialRiskPips(position)
           /\ calculate_pnl(position, price)
                  >= risk_pips(position) * cfg.TRAILING_STOP_ACTIVATION_RR
           /\ calculate_pnl(position, price)
                  < InitialRiskPips(position) * cfg.TRAILING_STOP_ACTIVATION_RR

-----------------------------------------------------------------------------
(* properties of the order of the steps of a bar *)

\* C24: a signal is asked for only in the step after the bar's exits, only
\* with no position open for the symbol then, and that step closes nothing;
\* stops change and SL, TP and TIME trades are made only in the exit step,
\* and only for positions entered on an earlier bar; a position is opened
\* only in the signal step, with the bar's time as its entry time
SameBarOrdering ==
    [][/\ signal_log' # signal_log =>
              /\ pc = "signal"
              /\ NoPositionOpen(RM)
              /\ closed_trades' = closed_trades
              /\ Len(signal_log') = Len(signal_log) + 1
              /\ signal_log'[Len(signal_log')][1] = LastTime
       /\ pc = "signal" /\ ~NoPositionOpen(RM) =>
              signal_log' = signal_log /\ UNCHANGED rmVars
       /\ \A ref \in 1..Len(positions) :
              positions'[ref] # positions[ref] =>
                  pc = "exits" /\ positions[ref].entry_time < LastTime
       /\ \A trade \in NewTrades :
              trade.exit_reason \in {"SL", "TP", "TIME"} =>
                  /\ pc = "exits"
                  /\ trade.exit_time = LastTime
                  /\ trade.entry_time < LastTime
       /\ Len(positions') > Len(positions) =>
              /\ pc = "signal"
              /\ Len(positions') = Len(positions) + 1
              /\ positions'[Len(positions')].entry_time = LastTime
              /\ open_positions' = Append(open_positions, Len(positions'))]_vars

\* C24's case: a position opened on a bar whose low is beyond its stop is
\* open after the bar, with the stop it was opened with
OpenedOnATriggeringBar ==
    /\ pc = "loop"
    /\ open_positions # <<>>
    /\ LET position == positions[open_positions[Len(open_positions)]]
       IN  /\ position.entry_time = LastTime
           /\ StopHit(position, bars[Len(bars)])
           /\ signal_log # <<>>
           /\ signal_log[Len(signal_log)][1] = LastTime
           /\ ~IsNone(signal_log[Len(signal_log)][2])
           /\ position.stop_loss = Get(signal_log[Len(signal_log)][2]).stop_loss

-----------------------------------------------------------------------------
(* properties of the trade log of a simulation run *)

\* the places of the log holding the trade of the position
TradesOf(position) ==
    {k \in 1..Len(closed_trades) :
        /\ closed_trades[k].entry_time = position.entry_time
        /\ closed_trades[k].side = position.side
        /\ closed_trades[k].entry_price = position.entry_price}

\* an open position has no trade, every other position exactly one, and no
\* trade is without its position; when the run has ended no position is
\* open, so the trades are as many as the positions opened
OneTradePerPosition ==
    /\ \A ref \in 1..Len(positions) :
           Cardinality(TradesOf(positions[ref])) =
               IF \E k \in 1..Len(open_positions) : open_positions[k] = ref
               THEN 0 ELSE 1
    /\ Len(closed_trades) + Len(open_positions) = Len(positions)
    /\ pc \in {"results", "done"} =>
           open_positions = <<>> /\ Len(closed_trades) = Len(positions)

\* C25: in a simulation run the trade log only grows at its end, by trades
\* that then stay as they are, and after every step each position that was
\* opened is either open or has exactly one trade; at the end of the run the
\* number of trades is the number of positions opened
TradeCreatedOnce ==
    [][/\ Len(closed_trades') >= Len(closed_trades)
       /\ SubSeq(closed_trades', 1, Len(closed_trades)) = closed_trades
       /\ OneTradePerPosition']_vars

\* C25's case: a completed run in which one position was closed by an exit
\* of the loop and a later one by the end of the data
TwoPositionsTwoTrades ==
    /\ pc = "done"
    /\ Len(positions) = 2
    /\ Len(closed_trades) = 2
    /\ closed_trades[1].exit_reason \in {"SL", "TP", "TIME"}
    /\ closed_trades[2].exit_reason = "END"

-----------------------------------------------------------------------------
(* properties of the per-day realised P&L *)

\* the trades of the log whose exit timestamp falls on the date
TradesExitedOn(d) ==
    SelectSeq(closed_trades, LAMBDA trade : DateOf(trade.exit_time) = d)

\* C26: the bucket of every date is the sum of the net P&L of the trades
\* that exited on that date, and only dates on which a trade exited have a
\* bucket
DailyPnlByExitDate ==
    /\ \A d \in DOMAIN daily_pnl : daily_pnl[d] = SumNetPnl(TradesExitedOn(d))
    /\ DOMAIN daily_pnl =
           {DateOf(closed_trades[k].exit_time) : k \in 1..Len(closed_trades)}

-----------------------------------------------------------------------------
(* properties of the session-range cache *)

\* calls j < k of the log are about the same calendar day and no call
\* between them is about another one
SameDayRun(j, k) ==
    /\ j < k
    /\ \A m \in j..k : DateOf(signal_log[m][1]) = DateOf(signal_log[j][1])

\* C27: once a call has run identify_asian_range for a day, no later call
\* runs it again until a call about another calendar day has arrived
RangeScannedOncePerDay ==
    \A j, k \in 1..Len(signal_log) :
        SameDayRun(j, k) /\ signal_log[j][3] => ~signal_log[k][3]

\* the part of C27 the code keeps: a second scan within a day happens only
\* on a day whose session range is absent or invalid
ValidRangeScannedOncePerDay ==
    \A j, k \in 1..Len(signal_log) :
        SameDayRun(j, k) /\ signal_log[j][3] /\ signal_log[k][3]
            => DayRangeInvalid(signal_log[j][1])

\* a valid range was computed by one call and reused by the next call of
\* the day
ValidRangeReused ==
    \E j, k \in 1..Len(signal_log) :
        /\ SameDayRun(j, k)
        /\ signal_log[j][3]
        /\ ~signal_log[k][3]
        /\ InTradingWindow(signal_log[k][1])
        /\ ~AlreadySignalled(SG, signal_log[k][1])
        /\ ~DayRangeInvalid(signal_log[j][1])

-----------------------------------------------------------------------------
(* properties of the gates of generate_signal *)

\* the call generate_signal has just answered: <<now, result, scanned>>
LastCall == signal_log[Len(signal_log)]

\* the time of day of now lies in [londonOpen, londonOpen + windowHours]
InClaimedWindow(now) ==
    /\ cfg.LONDON_OPEN <= TimeOf(now)
    /\ TimeOf(now) <= cfg.LONDON_OPEN + 60 * cfg.TRADING_WINDOW_HOURS

\* C28: a call of generate_signal whose now is outside the closed interval
\* [londonOpen, londonOpen + windowHours] returns None and leaves
\* last_signal_date as it was, whatever the window's length; a signal is
\* returned only for a now inside the interval
TradingWindowGate ==
    [][signal_log' # signal_log =>
          /\ ~InClaimedWindow(LastCall'[1]) =>
                 /\ IsNone(LastCall'[2])
                 /\ last_signal_date' = last_signal_date
          /\ ~IsNone(LastCall'[2]) => InClaimedWindow(LastCall'[1])]_vars

\* C28's case: with a window of two hours, a call for the 15:30 bar, outside
\* the interval, returned None before any signal of the day, and a later
\* call for 10:00, the end of the interval, returned a signal
SignalAtEndOfWindowOnly ==
    /\ cfg.TRADING_WINDOW_HOURS = 2
    /\ \E j, k \in 1..Len(signal_log) :
           /\ k < j
           /\ DateOf(signal_log[k][1]) = DateOf(signal_log[j][1])
           /\ ~InClaimedWindow(signal_log[k][1])
           /\ TimeOf(signal_log[k][1]) > cfg.LONDON_OPEN
           /\ IsNone(signal_log[k][2])
           /\ ~IsNone(signal_log[j][2])
           /\ TimeOf(signal_log[j][1]) = cfg.LONDON_OPEN + 60 * cfg.TRADING_WINDOW_HOURS

\* the signal returned is against the trend at now
ReturnedAgainstTrend(call) ==
    LET trend == calculate_trend_direction(bars, call[1])
    IN  /\ ~IsNone(call[2])
        /\ \/ Get(call[2]).signal_type = "LONG" /\ trend = -1
           \/ Get(call[2]).signal_type = "SHORT" /\ trend = 1

\* the bars up to asOf
BarsUpTo(asOf) == {k \in 1..Len(bars) : bars[k].t <= asOf}

\* the trend is 0 when the filter is off or fewer than TREND_EMA_PERIOD bars
\* exist up to asOf
TrendZeroWithoutData ==
    \A k \in 1..Len(bars) :
        \/ ~cfg.USE_TREND_FILTER
        \/ Cardinality(BarsUpTo(bars[k].t)) < cfg.TREND_EMA_PERIOD
        => calculate_trend_direction(bars, bars[k].t) = 0

RatioAtLeastMinimum(signal) ==
    LET risk == Abs(signal.entry_price - signal.stop_loss)
        reward == Abs(signal.take_profit - signal.entry_price)
    IN  /\ risk # 0
        /\ reward * MIN_RISK_REWARD_DEN >= MIN_RISK_REWARD_NUM * risk

\* C30: every signal generate_signal returns has a risk-reward ratio of at
\* least MIN_RISK_REWARD; with a RISK_REWARD_RATIO below the minimum every
\* candidate is below it and every call returns None; last_signal_date
\* changes only in a call that returns a signal, to the date of that call
RiskRewardGate ==
    [][signal_log' # signal_log =>
          /\ ~IsNone(LastCall'[2]) => RatioAtLeastMinimum(Get(LastCall'[2]))
          /\ cfg.RISK_REWARD_RATIO * MIN_RISK_REWARD_DEN < MIN_RISK_REWARD_NUM
                 => IsNone(LastCall'[2])
          /\ last_signal_date' # last_signal_date =>
                 /\ ~IsNone(LastCall'[2])
                 /\ last_signal_date' = Some(DateOf(LastCall'[1]))]_vars

\* C30's case: with a reward ratio of 1 the call for a bar of the window
\* that closed above a valid range returned None, no trend being known, and
\* no signal date is marked
RejectedForRiskReward ==
    /\ cfg.RISK_REWARD_RATIO * MIN_RISK_REWARD_DEN < MIN_RISK_REWARD_NUM
    /\ signal_log # <<>>
    /\ LET now == LastCall[1]
           rng == identify_asian_range(bars, now)
       IN  /\ InTradingWindow(now)
           /\ ~IsNone(rng)
           /\ check_breakout(Get(BarAt(bars, now)), Get(rng)) = "LONG"
           /\ calculate_trend_direction(bars, now) = 0
           /\ IsNone(LastCall[2])
           /\ IsNone(last_signal_date)

\* a signal was returned under the default RISK_REWARD_RATIO
SignalAboveMinimum ==
    /\ cfg = DefaultConfig
    /\ signal_log # <<>>
    /\ ~IsNone(LastCall[2])

-----------------------------------------------------------------------------
(* properties of the statistics of a trade log *)

RECURSIVE SumOver(_, _)
\* the sum of the net P&L of the trades of the log at the indices
SumOver(trades, idx) ==
    IF idx = {} THEN 0
    ELSE LET k == CHOOSE i \in idx : TRUE
         IN  net_pnl(trades[k]) + SumOver(trades, idx \ {k})

GrossProfit == SumOver(closed_trades, {k \in 1..Len(closed_trades) : net_pnl(closed_trades[k]) > 0})

GrossLoss == Abs(SumOver(closed_trades, {k \in 1..Len(closed_trades) : net_pnl(closed_trades[k]) <= 0}))

StatAsked(call) == pc = "returned" /\ Get(results).call = call

\* C31: the profit factor is the gross profit (the net P&L of the trades with
\* a positive one) over the gross loss (the absolute sum of the net P&L of
\* all other trades, the break-even ones among them), infinite when there is
\* no gross loss but a gross profit, and 0 when both are 0; the call always
\* returns one of these
ProfitFactorCases ==
    StatAsked("profit_factor") =>
        LET ret == Get(results).ret
        IN  /\ GrossLoss = 0 /\ GrossProfit > 0 => IsInf(ret)
            /\ GrossLoss = 0 /\ GrossProfit = 0 => ~IsInf(ret) /\ ret.num = 0
            /\ GrossLoss # 0 =>
                   /\ ~IsInf(ret)
                   /\ ret.num * GrossLoss = GrossProfit * ret.den

\* C31's case: the log holds winners and break-even trades and no loser, and
\* the profit factor returned is infinite
InfiniteProfitFactor ==
    /\ StatAsked("profit_factor")
    /\ \E k \in 1..Len(closed_trades) : net_pnl(closed_trades[k]) = 0
    /\ \E k \in 1..Len(closed_trades) : net_pnl(closed_trades[k]) > 0
    /\ IsInf(Get(results).ret)

\* the log holds break-even trades only, and the profit factor returned is 0
ZeroProfitFactor ==
    /\ StatAsked("profit_factor")
    /\ closed_trades # <<>>
    /\ \A k \in 1..Len(closed_trades) : net_pnl(closed_trades[k]) = 0
    /\ Get(results).ret = Frac(0, 1)

\* the lengths of the runs of adjacent trades of the log that are all
\* winners (net P&L > 0), or all non-winners
RunLengths(winners) ==
    {n \in 1..Len(closed_trades) :
        \E i \in 1..(Len(closed_trades) - n + 1) :
            \A k \in i..(i + n - 1) : (net_pnl(closed_trades[k]) > 0) = winners}

LongestRun(winners) == SeqMax(RunLengths(winners) \cup {0})

\* C32: the streaks returned are the lengths of the longest run of adjacent
\* winners and of the longest run of adjacent non-winners (net P&L <= 0) of
\* the log in close order; both are 0 for an empty log
ConsecutiveStreaks ==
    StatAsked("consecutive_trades") =>
        Get(results).ret = <<LongestRun(TRUE), LongestRun(FALSE)>>

\* C32's case: two winners with a break-even trade between them give a
\* longest win streak of one
BreakEvenEndsWinStreak ==
    /\ StatAsked("consecutive_trades")
    /\ \E k \in 2..(Len(closed_trades) - 1) :
           /\ net_pnl(closed_trades[k - 1]) > 0
           /\ net_pnl(closed_trades[k]) = 0
           /\ net_pnl(closed_trades[k + 1]) > 0
    /\ Get(results).ret[1] = 1

\* the streaks of an empty log
NoTradeNoStreak ==
    /\ StatAsked("consecutive_trades")
    /\ closed_trades = <<>>
    /\ Get(results).ret = <<0, 0>>

-----------------------------------------------------------------------------
(* properties of the optimizer's use of the configuration *)

\* the names of the swept parameters
SweptNames == UNION {DOMAIN Optimizer.param_combinations[k] :
                        k \in 1..Len(Optimizer.param_combinations)}

\* C33: outside the run of a combination - before the first, between two,
\* after one whose run raised, and once optimize() has returned or raised -
\* every swept parameter holds the value it had before the sweep; during the
\* run of a combination the swept parameters hold that combination's values
\* and nothing of an earlier one; no other parameter ever changes
ConfigIsolation ==
    /\ \A n \in DOMAIN cfg \ SweptNames : cfg[n] = DefaultConfig[n]
    /\ pc # "try" => \A n \in SweptNames : cfg[n] = DefaultConfig[n]
    /\ pc = "try" =>
           \A n \in SweptNames :
               cfg[n] = Optimizer.param_combinations[Optimizer.i][n]

\* C33's case: the run of a combination with values other than the
\* configured ones has raised, a later combination has run, and the
\* configuration is the one from before the sweep
RestoredAfterRaise ==
    /\ pc \in {"optimize", "returned", "raised"}
    /\ Optimizer.i >= 2
    /\ \E k \in 1..Len(Optimizer.errors) :
           LET failed == Optimizer.errors[k][1]
           IN  /\ failed = Optimizer.param_combinations[1]
               /\ \E n \in DOMAIN failed : failed[n] # DefaultConfig[n]
    /\ cfg = DefaultConfig

-----------------------------------------------------------------------------
(* properties of closing a position that is not open *)

\* the call that has just returned is a close_position of a position that
\* was not in open_positions
ClosedNotOpen ==
    /\ calls' # calls
    /\ Get(results').call = "close_position"
    /\ \A k \in 1..Len(open_positions) :
           positions[open_positions[k]] # positions[Get(results').ref]

\* C34: close_position for a position that is not open leaves the equity,
\* the per-day P&L, the open positions and the closed-trade log as they were
FailedCloseChangesNothing ==
    [][ClosedNotOpen =>
          /\ current_equity' = current_equity
          /\ daily_pnl' = daily_pnl
          /\ open_positions' = open_positions
          /\ closed_trades' = closed_trades]_vars

\* what the code keeps of C34: the call raises, and neither the open
\* positions nor the closed-trade log change
FailedCloseRaises ==
    [][ClosedNotOpen =>
          /\ Get(results').raised
          /\ open_positions' = open_positions
          /\ closed_trades' = closed_trades]_vars

-----------------------------------------------------------------------------
(* properties of the prices at which a simulation closes its trades *)

\* the stop the trade's position was opened with: the stop of the signal
\* that generate_signal returned for the trade's entry time
StopAtOpen(trade) ==
    LET k == CHOOSE i \in 1..Len(signal_log) :
                 signal_log[i][1] = trade.entry_time /\ ~IsNone(signal_log[i][2])
    IN  Get(signal_log[k][2]).stop_loss

\* the bars have their close between their low and their high
BarsWellFormed ==
    \A k \in 1..Len(bars) : bars[k].low <= bars[k].close /\ bars[k].close <= bars[k].high

\* C35: in a simulation over bars with low <= close <= high, no trade of the
\* log has lost more pips than lay between its entry and the stop it was
\* opened with, whatever its exit reason and however its stop was trailed
BoundedLoss ==
    BarsWellFormed =>
        \A k \in 1..Len(closed_trades) :
            LET trade == closed_trades[k]
            IN  trade.pnl_pips >= 0 - Abs(trade.entry_price - StopAtOpen(trade))

\* C35's case: a trade was closed with "SL" on a bar whose low was beyond
\* its stop, and lost exactly the pips it risked; another was closed at a
\* loss for a reason other than its stop
LostTheFullRisk ==
    \E k \in 1..Len(closed_trades) :
        LET trade == closed_trades[k]
            bar == Get(BarAt(bars, trade.exit_time))
        IN  /\ trade.exit_reason = "SL"
            /\ trade.side = "LONG"
            /\ bar.low < trade.stop_loss
            /\ trade.pnl_pips = 0 - Abs(trade.entry_price - StopAtOpen(trade))

\* a trade was closed at a loss by the time exit or at the end of the data
LostWithoutStop ==
    \E k \in 1..Len(closed_trades) :
        /\ closed_trades[k].exit_reason \in {"TIME", "END"}
        /\ closed_trades[k].pnl_pips < 0

\* a trade whose stop had been trailed was closed at that stop
ClosedAtTrailedStop ==
    \E k \in 1..Len(closed_trades) :
        /\ closed_trades[k].exit_reason = "SL"
        /\ closed_trades[k].stop_loss # StopAtOpen(closed_trades[k])

\* C36: every trade closed with "SL" or "TP" has its exit price within the
\* low and the high of the bar it was closed on
FillWithinBar ==
    \A k \in 1..Len(closed_trades) :
        LET trade == closed_trades[k]
            bar == Get(BarAt(bars, trade.exit_time))
        IN  trade.exit_reason \in {"SL", "TP"} =>
                bar.low <= trade.exit_price /\ trade.exit_price <= bar.high

\* what the code keeps of C36: a stop or a target is filled at its level,
\* which the bar has reached or passed, and lies within the bar unless the
\* whole bar is beyond the level
FillAtLevel ==
    \A k \in 1..Len(closed_trades) :
        LET trade == closed_trades[k]
            bar == Get(BarAt(bars, trade.exit_time))
            long == trade.side = "LONG"
        IN  /\ trade.exit_reason = "SL" =>
                   /\ trade.exit_price = trade.stop_loss
                   /\ IF long THEN bar.low <= trade.exit_price
                              ELSE trade.exit_price <= bar.high
            /\ trade.exit_reason = "TP" =>
                   /\ trade.exit_price = trade.take_profit
                   /\ IF long THEN trade.exit_price <= bar.high
                              ELSE bar.low <= trade.exit_price

-----------------------------------------------------------------------------
(* properties of the entries of a day *)

\* the positions the manager has opened at the time, and on the date
EnteredAt(t) == {ref \in 1..Len(positions) : positions[ref].entry_time = t}

EnteredOn(d) == {ref \in 1..Len(positions) : DateOf(positions[ref].entry_time) = d}

\* the calls of the log that returned a signal for which no position was
\* opened
RejectedSignals ==
    {k \in 1..Len(signal_log) :
        ~IsNone(signal_log[k][2]) /\ EnteredAt(signal_log[k][1]) = {}}

\* C37: when generate_signal has returned a signal for a bar of day D and
\* open_position has refused it, no position is opened on D, by that bar or
\* by any later one
RejectedEntryConsumesDay ==
    \A k \in RejectedSignals : EnteredOn(DateOf(signal_log[k][1])) = {}

\* C37's case: the signal of 08:00 was refused, the 10:00 bar of the same
\* day has broken out of the range again with a signal the manager would
\* have accepted, generate_signal returned None for it, and the day has no
\* position
SecondBreakoutAfterRejection ==
    \E k \in RejectedSignals, j \in 1..Len(signal_log) :
        LET now == signal_log[j][1]
            rng == Get(signal_log[k][2]).asian_range
            bar == Get(BarAt(bars, now))
            signal_type == check_breakout(bar, rng)
        IN  /\ k < j
            /\ pc = "loop"
            /\ now = LastTime
            /\ DateOf(now) = DateOf(signal_log[k][1])
            /\ InTradingWindow(now)
            /\ signal_type # "NONE"
            /\ ~IsNone(execute_signal(RM, MakeSignal(signal_type, now, bar, rng), now).ret)
            /\ IsNone(signal_log[j][2])
            /\ EnteredOn(DateOf(now)) = {}

\* the entry times of the positions the run has opened
EntryTimes == {positions[ref].entry_time : ref \in 1..Len(positions)}

\* C38: in a simulation, whose bars come in time order, no two positions are
\* opened on the same calendar day: no two trades of the log, and no trade
\* and open position, have their entry timestamps on one date
OneEntryPerDay ==
    /\ \A ref1, ref2 \in 1..Len(positions) :
           DateOf(positions[ref1].entry_time) = DateOf(positions[ref2].entry_time)
               => ref1 = ref2
    /\ \A i, j \in 1..Len(closed_trades) :
           DateOf(closed_trades[i].entry_time) = DateOf(closed_trades[j].entry_time)
               => i = j
    /\ \A k \in 1..Len(closed_trades) : closed_trades[k].entry_time \in EntryTimes

\* C38's case: the position opened at 08:00 was closed on the 10:00 bar,
\* that bar broke out of the range again with no position open, and
\* generate_signal, asked, returned None: the day keeps its one entry
NoReentryAfterExit ==
    /\ pc = "loop"
    /\ open_positions = <<>>
    /\ signal_log # <<>>
    /\ LastCall[1] = LastTime
    /\ IsNone(LastCall[2])
    /\ \E k \in 1..Len(closed_trades) :
           LET trade == closed_trades[k]
               rng == identify_asian_range(bars, LastTime)
           IN  /\ DateOf(trade.entry_time) = DateOf(LastTime)
               /\ trade.exit_time = LastTime
               /\ InTradingWindow(LastTime)
               /\ ~IsNone(rng)
               /\ check_breakout(bars[Len(bars)], Get(rng)) # "NONE"

\* two days, an entry on each
EntriesOnTwoDays ==
    \E ref1, ref2 \in 1..Len(positions) :
        DateOf(positions[ref1].entry_time) # DateOf(positions[ref2].entry_time)

-----------------------------------------------------------------------------
(* properties of the levels of signals and positions *)

\* C39: every signal generate_signal returns has its stop and its target on
\* opposite sides of its entry - a Long one stop < entry < target, a Short
\* one target < entry < stop - and risks more pips than the size of the
\* range it broke out of, so never 0
SignalLevelOrdering ==
    \A signal \in Emitted :
        /\ signal.signal_type = "LONG" =>
               /\ signal.stop_loss < signal.entry_price
               /\ signal.entry_price < signal.take_profit
        /\ signal.signal_type = "SHORT" =>
               /\ signal.take_profit < signal.entry_price
               /\ signal.entry_price < signal.stop_loss
        /\ Abs(signal.entry_price - signal.stop_loss)
               > signal.asian_range.high - signal.asian_range.low
        /\ Abs(signal.entry_price - signal.stop_loss) # 0

\* C39's case: a Long signal from 50 over the range 20..40 and a Short one
\* from 10 have been returned, each risking 30 pips against a range of 20
BreakoutsOnBothSides ==
    /\ cfg.BREAKOUT_BUFFER_PIPS >= 0 /\ cfg.RISK_REWARD_RATIO > 0
    /\ \E signal \in Emitted :
           /\ signal.signal_type = "LONG"
           /\ signal.entry_price - signal.stop_loss = 30
           /\ signal.asian_range.high - signal.asian_range.low = 20
    /\ \E signal \in Emitted :
           /\ signal.signal_type = "SHORT"
           /\ signal.stop_loss - signal.entry_price = 30
           /\ signal.asian_range.high - signal.asian_range.low = 20

\* C40: in every state of a simulation over bars with low <= close <= high,
\* an open Long position has its stop below its target and an open Short
\* one its stop above its target, however often the stop was trailed
StopNeverCrossesTarget ==
    BarsWellFormed =>
        \A k \in 1..Len(open_positions) :
            LET position == positions[open_positions[k]]
            IN  IF position.side = "LONG"
                THEN position.stop_loss < position.take_profit
                ELSE position.stop_loss > position.take_profit

\* the open position whose stop is no longer the one of its signal
TrailedOpenPositions ==
    {ref \in {open_positions[k] : k \in 1..Len(open_positions)} :
        \E signal \in Emitted :
            /\ signal.timestamp = positions[ref].entry_time
            /\ signal.stop_loss # positions[ref].stop_loss}

\* C40's case: a Long position is open whose stop has been trailed above its
\* entry and is below its target
TrailedStopBelowTarget ==
    \E ref \in TrailedOpenPositions :
        /\ positions[ref].side = "LONG"
        /\ positions[ref].stop_loss > positions[ref].entry_price
        /\ positions[ref].stop_loss < positions[ref].take_profit

\* the same for a Short position
TrailedStopAboveTarget ==
    \E ref \in TrailedOpenPositions :
        /\ positions[ref].side = "SHORT"
        /\ positions[ref].stop_loss < positions[ref].entry_price
        /\ positions[ref].stop_loss > positions[ref].take_profit

=============================================================================
